---- MODULE Spec2Model ----
(***************************************************************************)
(* Model of kyle0903/expense-tracker: the endpoint layer (route handlers), *)
(* the Notion-backed repository (lib/notion.ts), the summary aggregator    *)
(* (getSummary) and the process-wide response cache.                       *)
(*                                                                         *)
(* Strings of the source that are not ASCII are written with ASCII names:  *)
(*   "transfer"     stands for the category U+8F49 U+5E33  (zhuan zhang)   *)
(*   "advance"      stands for the category U+4EE3 U+588A  (dai dian)      *)
(*   "advanceRepay" stands for U+4EE3 U+588A U+9084 U+6B3E                 *)
(*   "food", "salary" stand for ordinary categories of DEFAULT_CATEGORIES  *)
(*   ""             is the category of a store row without a category      *)
(***************************************************************************)
EXTENDS Integers, Sequences, FiniteSets, TLC

VARIABLES
    appPin,       \* process.env.APP_PIN ("" when not configured)
    accounts,     \* rows of the Notion accounts database, in query order
    transactions, \* pages of the Notion transactions database, in creation order
    cache,        \* MemoryCache.cache: key -> [data, timestamp]
    now,          \* Date.now()
    served,       \* number of requests answered so far
    req,          \* the request being answered: handler, header, body
    resp,         \* its response: status, body, store calls and cache calls made
    sumTxs,     \* getSummary: the list returned by getTransactions
    sumIdx,     \* getSummary: position of the for-of loop (1-based)
    sumAcc,     \* getSummary: totalIncome, totalExpense and the three maps
    sumPc,      \* getSummary: "loop" while iterating, "done" once returned
    sumResult,  \* getSummary: the returned Summary (NoSummary before return)
    setPc,      \* setCarrierAccount, per caller: where the call stands
    setArg,     \* setCarrierAccount, per caller: the accountId argument
    setTodo,    \* setCarrierAccount, per caller: carrierAccounts still to clear
    getPc,      \* GET /api/summary in flight, per request: where it stands
    getArg,     \* GET /api/summary in flight: <<year, month>>
    getMonthly, \* GET /api/summary in flight: getSummary(year, month), once read
    getYearly,  \* GET /api/summary in flight: getSummary(year), once read
    getResp,    \* GET /api/summary in flight: the response, once sent
    getSince,   \* GET /api/summary in flight: what the request began with
    writerPc,   \* the client that writes an entry, then invalidates the cache
    cacheCall,  \* MemoryCache: the last method call
    cacheRet,   \* MemoryCache: what the last method call returned
    query       \* getSummary: the arguments and the date filter of its query

sumVars == <<sumTxs, sumIdx, sumAcc, sumPc, sumResult>>

carrierVars == <<setPc, setArg, setTodo>>

flightVars ==
    <<getPc, getArg, getMonthly, getYearly, getResp, getSince, writerPc>>

callVars == <<cacheCall, cacheRet>>

queryVars == <<query>>

\* The state of the calls that are modelled one await at a time.
stepVars == <<carrierVars, flightVars, callVars, queryVars>>

apiVars == <<appPin, accounts, transactions, cache, now, served, req, resp>>

vars == <<appPin, accounts, transactions, cache, now, served, req, resp,
          sumTxs, sumIdx, sumAcc, sumPc, sumResult, setPc, setArg, setTodo,
          getPc, getArg, getMonthly, getYearly, getResp, getSince, writerPc,
          cacheCall, cacheRet, query>>

----------------------------------------------------------------------------
(* Bounds *)

MaxFetched == 3

MaxRequests == 2

\* Number of setCarrierAccount calls in flight or finished.
MaxCallers == 2

\* Number of GET /api/summary requests in flight or answered.
MaxGetters == 2

\* The last value of the clock Date.now() reads.
MaxNow == 2

Amounts == {-2, 0, 1, 3}

----------------------------------------------------------------------------
(* Summary aggregator: lib/notion.ts getSummary *)

ExcludedCategories == {"transfer", "advance", "advanceRepay"}

FetchedCategories == ExcludedCategories \cup {"food", ""}

FetchedTx == [category : FetchedCategories, amount : Amounts]

EmptyMap == [k \in {} |-> 0]

\* m[k] || 0, for a key k that is not the name of a property every
\* JavaScript object inherits (constructor, toString, ...): the categories
\* of FetchedCategories are none of these.
MapGet(m, k) == IF k \in DOMAIN m THEN m[k] ELSE 0

\* A map that keeps the first amount counted for a key.
MapAddFirstOnly(m, k, v) == IF k \in DOMAIN m THEN m ELSE (k :> v) @@ m

\* m[k] = (m[k] || 0) + v
MapAdd(m, k, v) == (k :> (MapGet(m, k) + v)) @@ m

Abs(n) == IF n < 0 THEN -n ELSE n

ZeroAcc ==
    [totalIncome |-> 0, totalExpense |-> 0, byCategory |-> EmptyMap,
     byCategoryExpense |-> EmptyMap, byCategoryIncome |-> EmptyMap]

\* totalIncome += tx.amount and the income breakdown (tx.amount > 0).
CountIncomeOverwrites(acc, tx) ==
    [acc EXCEPT
        !.totalIncome = @ + tx.amount,
        !.byCategoryIncome =
            IF tx.category # ""
            THEN [x \in (DOMAIN @) \cup {tx.category} |->
                     IF x = tx.category THEN tx.amount ELSE @[x]]
            ELSE @]

CountIncome(acc, tx) ==
    [acc EXCEPT
        !.totalIncome = @ + tx.amount,
        !.byCategoryIncome =
            IF tx.category # "" THEN MapAdd(@, tx.category, tx.amount)
            ELSE @]

\* totalExpense += Math.abs(tx.amount) and the expense breakdown.
CountExpenseSigned(acc, tx) ==
    [acc EXCEPT
        !.totalExpense = @ + tx.amount,
        !.byCategoryExpense =
            IF tx.category # "" THEN MapAdd(@, tx.category, tx.amount)
            ELSE @]

CountExpense(acc, tx) ==
    [acc EXCEPT
        !.totalExpense = @ + Abs(tx.amount),
        !.byCategoryExpense =
            IF tx.category # "" THEN MapAdd(@, tx.category, Abs(tx.amount))
            ELSE @]

\* The backward-compatible byCategory map.
CountByCategory(acc, tx) ==
    IF tx.category # ""
    THEN [acc EXCEPT !.byCategory = MapAdd(@, tx.category, Abs(tx.amount))]
    ELSE acc

\* The body of the loop for an entry that is not skipped.
CountEntryZeroAsIncome(acc, tx) ==
    CountByCategory(IF tx.amount >= 0 THEN CountIncome(acc, tx)
                    ELSE CountExpense(acc, tx), tx)

CountEntry(acc, tx) ==
    CountByCategory(IF tx.amount > 0 THEN CountIncome(acc, tx)
                    ELSE CountExpense(acc, tx), tx)

\* One iteration of the for-of loop over the fetched transactions.
SummaryStepRepaymentCounted(acc, tx) ==
    IF tx.category \in {"transfer", "advance"} THEN acc
    ELSE CountEntry(acc, tx)

SummaryStep(acc, tx) ==
    IF tx.category \in ExcludedCategories THEN acc
    ELSE CountEntry(acc, tx)

MakeSummaryBalanceSwapped(acc) ==
    [totalIncome |-> acc.totalIncome,
     totalExpense |-> acc.totalExpense,
     balance |-> acc.totalExpense - acc.totalIncome,
     byCategory |-> acc.byCategory,
     byCategoryExpense |-> acc.byCategoryExpense,
     byCategoryIncome |-> acc.byCategoryIncome]

\* The object literal returned by getSummary.
MakeSummary(acc) ==
    [totalIncome |-> acc.totalIncome,
     totalExpense |-> acc.totalExpense,
     balance |-> acc.totalIncome - acc.totalExpense,
     byCategory |-> acc.byCategory,
     byCategoryExpense |-> acc.byCategoryExpense,
     byCategoryIncome |-> acc.byCategoryIncome]

RECURSIVE SummaryFold(_, _, _, _)
\* for (const tx of transactions), over the entries lo..hi in their order:
\* those of the first half of the range, then those of the second half
\* (the accumulator of the first half is a record, and asking for its
\* fields has it computed before the second half is begun).
SummaryFold(txs, lo, hi, acc) ==
    IF lo > hi THEN acc
    ELSE IF lo = hi THEN SummaryStep(acc, txs[lo])
    ELSE LET mid == (lo + hi) \div 2
             first == SummaryFold(txs, lo, mid, acc)
         IN  IF DOMAIN first = {} THEN first
             ELSE SummaryFold(txs, mid + 1, hi, first)

\* getSummary applied to an already fetched list.
SummaryOf(txs) == MakeSummary(SummaryFold(txs, 1, Len(txs), ZeroAcc))

NoSummary == [none |-> TRUE]

SeqsUpTo(S, n) == UNION {[1..k -> S] : k \in 0..n}

----------------------------------------------------------------------------
(* Authentication gate: lib/auth-middleware.ts *)

\* createHash('sha256').update(pin).digest('hex') for the PINs of the model.
Sha256Hex(pin) ==
    CASE pin = "1234" ->
           "03ac674216f3e15c761ee1a5e255f067953623c8b388b4459e13f978d7c846f4"
      [] pin = "0000" ->
           "9af15b336e6a9619928537df30b2e6a2376569fcf9d7e773eccede65606529a0"
      [] OTHER -> "e3b0c44298fc1c149afbf4c8996fb92427ae41e4649b934ca495991b7852b855"

\* request.headers.get('Authorization') is null when the header is absent.
\* A present header is a sequence of pieces, each either the 7 characters
\* "Bearer " or a run of other text.
NoHeader == <<"null">>

RECURSIVE ReplaceFirst(_, _)
\* String.prototype.replace(piece, ''): only the first occurrence is removed.
ReplaceFirst(s, piece) ==
    IF s = <<>> THEN <<>>
    ELSE IF Head(s) = piece THEN Tail(s)
    ELSE <<Head(s)>> \o ReplaceFirst(Tail(s), piece)

RECURSIVE Join(_)
\* The string the pieces make up.
Join(pieces) ==
    IF pieces = <<>> THEN "" ELSE Head(pieces) \o Join(Tail(pieces))

\* A gate that lets through the scheme followed by the digest and nothing
\* else.
VerifyAuthHeaderBearerOnly(pin, authHeader) ==
    pin = "" \/ authHeader = <<"Bearer ", Sha256Hex(pin)>>

VerifyAuthHeaderMissingOk(pin, authHeader) ==
    \/ pin = ""
    \/ authHeader = NoHeader
    \/ Join(ReplaceFirst(authHeader, "Bearer ")) = Sha256Hex(pin)

VerifyAuthHeader(pin, authHeader) ==
    IF pin = "" THEN TRUE
    ELSE IF authHeader = NoHeader THEN FALSE
    ELSE LET token == Join(ReplaceFirst(authHeader, "Bearer "))
         IN  IF token = "" THEN FALSE
             ELSE token = Sha256Hex(pin)

----------------------------------------------------------------------------
(* The Notion store and the repository: lib/notion.ts *)

\* A request-body field is <<>> when absent and <<v>> when present.
Has(f) == f # <<>>
Val(f) == f[1]

AccountId(n) == <<"account", n>>
TransactionId(n) == <<"transaction", n>>
UnknownId == <<"page", 0>>

\* Result of a repository call: whether it returned or threw, the store
\* afterwards, the returned value and the Notion API calls it issued.
Returned(accts, txs, value, calls) ==
    [ok |-> TRUE, accounts |-> accts, transactions |-> txs,
     value |-> value, calls |-> calls]
Threw(accts, txs, calls) ==
    [ok |-> FALSE, accounts |-> accts, transactions |-> txs,
     value |-> <<>>, calls |-> calls]

\* accounts.find(a => a.name === name): index of the first match, 0 if none.
FindAccount(accts, name) ==
    IF \E i \in 1..Len(accts) : accts[i].name = name
    THEN CHOOSE i \in 1..Len(accts) :
            /\ accts[i].name = name
            /\ \A j \in 1..(i - 1) : accts[j].name # name
    ELSE 0

\* createTransaction(transaction). failAt names the Notion call of the
\* enclosing handler that fails (0: none); done is the number of calls the
\* handler has issued before this one.
createTransaction(accts, txs, t, done, failAt) ==
    IF failAt = done + 1
    THEN Threw(accts, txs, <<"query accounts">>)
    ELSE LET i == FindAccount(accts, t.account)
         IN  IF i = 0
             THEN Threw(accts, txs, <<"query accounts">>)
             ELSE IF failAt = done + 2
             THEN Threw(accts, txs, <<"query accounts", "create transaction">>)
             ELSE LET id == TransactionId(Len(txs) + 1)
                      page == [id |-> id, name |-> t.name,
                               category |-> t.category, date |-> t.date,
                               amount |-> t.amount, account |-> accts[i].id,
                               note |-> t.note, archived |-> FALSE]
                  IN  Returned(accts, Append(txs, page), id,
                               <<"query accounts", "create transaction">>)

\* The account objects getAccounts() maps the rows to.
getAccounts(accts, txs, done, failAt) ==
    IF failAt = done + 1
    THEN Threw(accts, txs, <<"query accounts">>)
    ELSE Returned(accts, txs, accts, <<"query accounts">>)

\* Dates are YYYY-MM-DD strings; the model writes them as the number
\* YYYYMMDD, whose order is the order of the calendar.
DateOf(y, m, d) == y * 10000 + m * 100 + d

RECURSIVE LatestFirst(_)
\* The pages of the latest date, in the order given, then the earlier ones.
LatestFirst(pages) ==
    IF pages = <<>> THEN <<>>
    ELSE LET dates == {pages[i].date : i \in 1..Len(pages)}
             latest == CHOOSE d \in dates : \A e \in dates : e <= d
         IN  SelectSeq(pages, LAMBDA p : p.date = latest)
             \o LatestFirst(SelectSeq(pages, LAMBDA p : p.date < latest))

\* sorts: [{ property: date, direction: 'descending' }]. Among the pages of
\* one date, a page comes after those the database holds behind it.
SortByDateDesc(pages) ==
    LatestFirst([i \in 1..Len(pages) |-> pages[Len(pages) + 1 - i]])

\* A date filter that leaves out the two end dates.
FilterPagesOpenRange(pages, filtered, startDate, endDate) ==
    SelectSeq(pages,
              LAMBDA p : /\ ~p.archived
                         /\ filtered
                               => (p.date > startDate /\ p.date < endDate))

\* The pages a database query returns: not archived and, when the filter
\* is given, with on_or_after startDate and on_or_before endDate.
FilterPages(pages, filtered, startDate, endDate) ==
    SelectSeq(pages,
              LAMBDA p : /\ ~p.archived
                         /\ filtered
                               => (p.date >= startDate /\ p.date <= endDate))

PageSize == 100

FirstPage(pages) ==
    IF Len(pages) <= PageSize THEN pages ELSE SubSeq(pages, 1, PageSize)

\* accountMap.get(relatedId) || ''
AccountNameOf(accts, id) ==
    IF \E i \in 1..Len(accts) : accts[i].id = id
    THEN accts[CHOOSE i \in 1..Len(accts) : accts[i].id = id].name
    ELSE ""

\* getTransactions(startDate?, endDate?); a bound is <<>> when not given.
getTransactions(accts, txs, startDate, endDate, done, failAt) ==
    IF failAt = done + 1
    THEN Threw(accts, txs, <<"query transactions">>)
    ELSE IF failAt = done + 2
    THEN Threw(accts, txs, <<"query transactions", "query accounts">>)
    ELSE LET filtered == Has(startDate) /\ Has(endDate)
             results == FirstPage(SortByDateDesc(
                            FilterPages(txs, filtered,
                                IF filtered THEN Val(startDate) ELSE 0,
                                IF filtered THEN Val(endDate) ELSE 0)))
             row(p) == [id |-> p.id, name |-> p.name, category |-> p.category,
                        date |-> p.date, amount |-> p.amount,
                        account |-> AccountNameOf(accts, p.account),
                        note |-> p.note]
         IN  Returned(accts, txs,
                      [i \in 1..Len(results) |-> row(results[i])],
                      <<"query transactions", "query accounts">>)

\* The Date arithmetic of the language, in days since 1970-01-01.

\* A calendar in which every fourth year is a leap year.
IsLeapYearEveryFourth(y) == y % 4 = 0

\* DaysInYear(y) = 366
IsLeapYear(y) == (y % 4 = 0 /\ y % 100 # 0) \/ y % 400 = 0

\* DayFromYear(y): the day number of the first day of year y.
DayFromYear(y) ==
    365 * (y - 1970) + ((y - 1969) \div 4) - ((y - 1901) \div 100)
        + ((y - 1601) \div 400)

\* The day within year y on which the month of index m (0..11) begins.
MonthStart(y, m) ==
    LET leap == IF IsLeapYear(y) THEN 1 ELSE 0
    IN  CASE m = 0 -> 0
          [] m = 1 -> 31
          [] m = 2 -> 59 + leap
          [] m = 3 -> 90 + leap
          [] m = 4 -> 120 + leap
          [] m = 5 -> 151 + leap
          [] m = 6 -> 181 + leap
          [] m = 7 -> 212 + leap
          [] m = 8 -> 243 + leap
          [] m = 9 -> 273 + leap
          [] m = 10 -> 304 + leap
          [] m = 11 -> 334 + leap

\* MakeDay(year, month, date): month is an index and may be 12 or more.
MakeDay(year, month, date) ==
    LET ym == year + (month \div 12)
        mn == month % 12
    IN  DayFromYear(ym) + MonthStart(ym, mn) + date - 1

\* YearFromTime: the largest y with DayFromYear(y) <= day.
YearFromDay(day) ==
    LET near == 1970 + (day \div 365)
    IN  CHOOSE y \in (near - 8)..(near + 8) :
            DayFromYear(y) <= day /\ day < DayFromYear(y + 1)

\* DateFromTime: the day of the month of a day number.
DateFromDay(day) ==
    LET y == YearFromDay(day)
        d == day - DayFromYear(y)
        m == CHOOSE i \in 0..11 :
                /\ MonthStart(y, i) <= d
                /\ i < 11 => d < MonthStart(y, i + 1)
    IN  d - MonthStart(y, m) + 1

\* new Date(year, month, 0).getDate(): day 0 of the month of index `month`
\* is the last day of the month before it, the month numbered `month`. The
\* constructor reads a year from 0 to 99 as 1900 + year.
LastDayOfMonth(year, month) ==
    LET yr == IF year \in 0..99 THEN 1900 + year ELSE year
    IN  DateFromDay(MakeDay(yr, month, 0))

\* The startDate and endDate getSummary computes; month is 0 when not
\* given (0 is falsy too).
SummaryRangeYearToDec30(year, month) ==
    [startDate |-> IF month # 0 THEN DateOf(year, month, 1)
                   ELSE DateOf(year, 1, 1),
     endDate |-> IF month # 0
                 THEN DateOf(year, month, LastDayOfMonth(year, month))
                 ELSE DateOf(year, 12, 30)]

SummaryRange(year, month) ==
    [startDate |-> IF month # 0 THEN DateOf(year, month, 1)
                   ELSE DateOf(year, 1, 1),
     endDate |-> IF month # 0
                 THEN DateOf(year, month, LastDayOfMonth(year, month))
                 ELSE DateOf(year, 12, 31)]

\* getSummary(year, month?)
getSummary(accts, txs, year, month, done, failAt) ==
    LET range == SummaryRange(year, month)
        got == getTransactions(accts, txs, <<range.startDate>>,
                               <<range.endDate>>, done, failAt)
    IN  IF got.ok
        THEN Returned(accts, txs, SummaryOf(got.value), got.calls)
        ELSE got

\* A replacing update, which resets the category and the note that the
\* request leaves out.
UpdatedPageReplacesAll(page, t, accts) ==
    LET i == IF Has(t.account) THEN FindAccount(accts, Val(t.account)) ELSE 0
    IN  [page EXCEPT
            !.name = IF Has(t.name) THEN Val(t.name) ELSE @,
            !.category = IF Has(t.category) THEN Val(t.category) ELSE "",
            !.date = IF Has(t.date) THEN Val(t.date) ELSE @,
            !.amount = IF Has(t.amount) THEN Val(t.amount) ELSE @,
            !.account = IF i # 0 THEN accts[i].id ELSE @,
            !.note = t.note]

\* The properties object updateTransaction builds from the supplied fields.
\* t.account, when supplied, is looked up among the fetched accounts.
UpdatedPage(page, t, accts) ==
    LET i == IF Has(t.account) THEN FindAccount(accts, Val(t.account)) ELSE 0
    IN  [page EXCEPT
            !.name = IF Has(t.name) THEN Val(t.name) ELSE @,
            !.category = IF Has(t.category) THEN Val(t.category) ELSE @,
            !.date = IF Has(t.date) THEN Val(t.date) ELSE @,
            !.amount = IF Has(t.amount) THEN Val(t.amount) ELSE @,
            !.account = IF i # 0 THEN accts[i].id ELSE @,
            !.note = IF Has(t.note) THEN t.note ELSE @]

\* Index of the transaction page with this id, 0 if the store holds none.
PageIndex(txs, id) ==
    IF \E i \in 1..Len(txs) : txs[i].id = id
    THEN CHOOSE i \in 1..Len(txs) : txs[i].id = id
    ELSE 0

\* updateTransaction(id, transaction): pages.update is rejected by the
\* store for a page id it does not hold and for an archived page.
updateTransaction(accts, txs, id, t, done, failAt) ==
    LET pre == IF Has(t.account) THEN <<"query accounts">> ELSE <<>>
        i == PageIndex(txs, id)
    IN  IF Has(t.account) /\ failAt = done + 1
        THEN Threw(accts, txs, pre)
        ELSE IF failAt = done + Len(pre) + 1 \/ i = 0 \/ txs[i].archived
        THEN Threw(accts, txs, pre \o <<"update transaction">>)
        ELSE Returned(accts,
                      [txs EXCEPT ![i] = UpdatedPage(@, t, accts)],
                      <<>>, pre \o <<"update transaction">>)

\* A deletion that is acknowledged without archiving the page.
deleteTransactionKeepsPage(accts, txs, id, done, failAt) ==
    IF failAt = done + 1 \/ PageIndex(txs, id) = 0
    THEN Threw(accts, txs, <<"archive transaction">>)
    ELSE Returned(accts, txs, <<>>, <<"archive transaction">>)

\* deleteTransaction(id): pages.update({ archived: true }).
deleteTransaction(accts, txs, id, done, failAt) ==
    LET i == PageIndex(txs, id)
    IN  IF failAt = done + 1 \/ i = 0
        THEN Threw(accts, txs, <<"archive transaction">>)
        ELSE Returned(accts, [txs EXCEPT ![i].archived = TRUE], <<>>,
                      <<"archive transaction">>)

\* createAccount(account): the carrier checkbox is not among the properties.
createAccount(accts, txs, a, done, failAt) ==
    IF failAt = done + 1
    THEN Threw(accts, txs, <<"create account">>)
    ELSE LET id == AccountId(Len(accts) + 1)
             row == [id |-> id, name |-> a.name, type |-> a.type,
                     initialBalance |-> a.initialBalance,
                     isCarrierAccount |-> FALSE]
         IN  Returned(Append(accts, row), txs, id, <<"create account">>)

AccountIndex(accts, id) ==
    IF \E i \in 1..Len(accts) : accts[i].id = id
    THEN CHOOSE i \in 1..Len(accts) : accts[i].id = id
    ELSE 0

\* updateAccount(id, updates): only name, type and initialBalance are read.
updateAccountWritesFlag(accts, txs, id, u, done, failAt) ==
    LET i == AccountIndex(accts, id)
    IN  IF failAt = done + 1 \/ i = 0
        THEN Threw(accts, txs, <<"update account">>)
        ELSE Returned(
                [accts EXCEPT ![i] = [@ EXCEPT
                    !.name = IF Has(u.name) THEN Val(u.name) ELSE @,
                    !.isCarrierAccount =
                        IF Has(u.isCarrierAccount)
                        THEN Val(u.isCarrierAccount) ELSE @]],
                txs, <<>>, <<"update account">>)

updateAccount(accts, txs, id, u, done, failAt) ==
    LET i == AccountIndex(accts, id)
    IN  IF failAt = done + 1 \/ i = 0
        THEN Threw(accts, txs, <<"update account">>)
        ELSE Returned(
                [accts EXCEPT ![i] = [@ EXCEPT
                    !.name = IF Has(u.name) THEN Val(u.name) ELSE @,
                    !.type = IF Has(u.type) THEN Val(u.type) ELSE @,
                    !.initialBalance =
                        IF Has(u.initialBalance) THEN Val(u.initialBalance)
                        ELSE @]],
                txs, <<>>, <<"update account">>)

\* getCarrierAccount(): accounts.find(a => a.isCarrierAccount) || null
getCarrierAccount(accts, txs, done, failAt) ==
    IF failAt = done + 1
    THEN Threw(accts, txs, <<"query accounts">>)
    ELSE LET flagged == {i \in 1..Len(accts) : accts[i].isCarrierAccount}
         IN  Returned(accts, txs,
                      IF flagged = {} THEN <<>>
                      ELSE <<accts[CHOOSE i \in flagged :
                                      \A j \in flagged : i <= j]>>,
                      <<"query accounts">>)

RECURSIVE ClearCarriers(_, _, _, _)
\* The loop of setCarrierAccount over the flagged accounts, from position
\* i on: [accounts, calls, ok] after it ran or threw at call failAt.
ClearCarriers(accts, i, done, failAt) ==
    IF i > Len(accts) THEN [accounts |-> accts, n |-> 0, ok |-> TRUE]
    ELSE IF ~accts[i].isCarrierAccount
    THEN ClearCarriers(accts, i + 1, done, failAt)
    ELSE IF failAt = done + 1
    THEN [accounts |-> accts, n |-> 1, ok |-> FALSE]
    ELSE LET rest == ClearCarriers(
                        [accts EXCEPT ![i].isCarrierAccount = FALSE],
                        i + 1, done + 1, failAt)
         IN  [rest EXCEPT !.n = @ + 1]

UpdateCalls(n) == [k \in 1..n |-> "update account"]

\* setCarrierAccount(accountId)
setCarrierAccount(accts, txs, accountId, done, failAt) ==
    IF failAt = done + 1
    THEN Threw(accts, txs, <<"query accounts">>)
    ELSE LET cleared == ClearCarriers(accts, 1, done + 1, failAt)
             i == AccountIndex(accts, accountId)
         IN  IF ~cleared.ok
             THEN Threw(cleared.accounts, txs,
                        <<"query accounts">> \o UpdateCalls(cleared.n))
             ELSE IF failAt = done + cleared.n + 2 \/ i = 0
             THEN Threw(cleared.accounts, txs,
                        <<"query accounts">> \o UpdateCalls(cleared.n + 1))
             ELSE Returned(
                     [cleared.accounts EXCEPT ![i].isCarrierAccount = TRUE],
                     txs, <<>>,
                     <<"query accounts">> \o UpdateCalls(cleared.n + 1))

----------------------------------------------------------------------------
(* Response cache: lib/cache.ts *)

EmptyCache == [k \in {} |-> 0]

\* A ttl is <<>> for the default (Infinity) and <<ms>> when given.
ExpiredAtTtl(entry, ttl, t) == Has(ttl) /\ t - entry.timestamp >= Val(ttl)

Expired(entry, ttl, t) == Has(ttl) /\ t - entry.timestamp > Val(ttl)

\* MemoryCache.get(key, ttl): [value, cache]; value is <<>> for null.
CacheGet(c, key, ttl, t) ==
    IF key \notin DOMAIN c THEN [value |-> <<>>, cache |-> c]
    ELSE IF Expired(c[key], ttl, t)
    THEN [value |-> <<>>,
          cache |-> [k \in (DOMAIN c) \ {key} |-> c[k]]]
    ELSE [value |-> <<c[key].data>>, cache |-> c]

\* MemoryCache.set(key, data)
CacheSetKeepsFirst(c, key, data, t) ==
    [k \in (DOMAIN c) \cup {key} |->
        IF k \in DOMAIN c THEN c[k] ELSE [data |-> data, timestamp |-> t]]

CacheSet(c, key, data, t) ==
    [k \in (DOMAIN c) \cup {key} |->
        IF k = key THEN [data |-> data, timestamp |-> t] ELSE c[k]]

\* MemoryCache.delete(key)
CacheDelete(c, key) == [k \in (DOMAIN c) \ {key} |-> c[k]]

RECURSIVE RegexTest(_, _)
\* new RegExp('^' + pattern.replace(/\*/g, '.*') + '$').test(key), for
\* patterns and keys over letters, digits, ":", "." and "*": a "*" of the
\* pattern becomes ".*", and a "." of the pattern stays the regex dot.
RegexTest(pattern, key) ==
    IF pattern = <<>> THEN key = <<>>
    ELSE IF Head(pattern) = "*"
    THEN \/ RegexTest(Tail(pattern), key)
         \/ key # <<>> /\ RegexTest(pattern, Tail(key))
    ELSE /\ key # <<>>
         /\ Head(pattern) = "." \/ Head(pattern) = Head(key)
         /\ RegexTest(Tail(pattern), Tail(key))

\* MemoryCache.deletePattern(pattern)
CacheDeletePattern(c, pattern) ==
    [k \in {x \in DOMAIN c : ~RegexTest(pattern, x)} |-> c[k]]

\* MemoryCache.clear()
CacheClear(c) == EmptyCache

\* MemoryCache.stats().keys
CacheStats(c) == DOMAIN c

\* CACHE_KEYS, as sequences of characters.
KeyTransactions ==
    <<"t", "r", "a", "n", "s", "a", "c", "t", "i", "o", "n", "s">>
KeyAccounts == <<"a", "c", "c", "o", "u", "n", "t", "s">>

DigitChars == <<"0", "1", "2", "3", "4", "5", "6", "7", "8", "9">>

RECURSIVE DecimalString(_)
\* String(n) of a non-negative integer
DecimalString(n) ==
    IF n < 10 THEN <<DigitChars[n + 1]>>
    ELSE DecimalString(n \div 10) \o <<DigitChars[(n % 10) + 1]>>

\* `summary:${year}:${month}`
SummaryCacheKey(year, month) ==
    <<"s", "u", "m", "m", "a", "r", "y", ":">>
        \o DecimalString(year) \o <<":">> \o DecimalString(month)

----------------------------------------------------------------------------
(* Endpoint layer: app/api/**/route.ts *)

NoBody == <<>>

\* NextResponse.json(body, { status }) for the request (handler, hdr, body),
\* with the Notion calls and the cache calls the handler made on the way.
Reply(handler, hdr, body, status, error, data, calls, cacheOps) ==
    /\ served' = served + 1
    /\ req' = [handler |-> handler, hdr |-> hdr, body |-> body]
    /\ resp' = [status |-> status, success |-> (status = 200),
                error |-> error, data |-> data,
                calls |-> calls, cacheOps |-> cacheOps]

\* unauthorizedResponse()
Unauthorized(handler, hdr, body) ==
    /\ Reply(handler, hdr, body, 401, <<"unauthorized">>, <<>>, <<>>, <<>>)
    /\ UNCHANGED <<accounts, transactions, cache>>

\* A 400 answer, sent before any repository call.
BadRequest(handler, hdr, body, error) ==
    /\ Reply(handler, hdr, body, 400, <<error>>, <<>>, <<>>, <<>>)
    /\ UNCHANGED <<accounts, transactions, cache>>

\* The try/catch around one repository call r: 200 with data, or 500.
ReplyFrom(handler, hdr, body, r, data, error) ==
    /\ accounts' = r.accounts
    /\ transactions' = r.transactions
    /\ UNCHANGED cache
    /\ IF r.ok
       THEN Reply(handler, hdr, body, 200, <<>>, data, r.calls, <<>>)
       ELSE Reply(handler, hdr, body, 500, <<error>>, <<>>, r.calls, <<>>)

\* GET /api/accounts
AccountsGET(hdr, failAt) ==
    LET h == "GET /api/accounts" IN
    /\ UNCHANGED <<appPin, now, sumVars, stepVars>>
    /\ IF ~VerifyAuthHeader(appPin, hdr) THEN Unauthorized(h, hdr, NoBody)
       ELSE LET r == getAccounts(accounts, transactions, 0, failAt)
            IN  ReplyFrom(h, hdr, NoBody, r, r.value, "query failed")

\* POST /api/accounts
AccountsPOST(hdr, body, failAt) ==
    LET h == "POST /api/accounts" IN
    /\ UNCHANGED <<appPin, now, sumVars, stepVars>>
    /\ IF ~VerifyAuthHeader(appPin, hdr) THEN Unauthorized(h, hdr, body)
       ELSE IF ~Has(body.name) \/ Val(body.name) = ""
               \/ ~Has(body.type) \/ Val(body.type) = ""
       THEN BadRequest(h, hdr, body, "missing fields")
       ELSE LET r == createAccount(accounts, transactions,
                        [name |-> Val(body.name), type |-> Val(body.type),
                         initialBalance |->
                            IF Has(body.initialBalance)
                            THEN Val(body.initialBalance) ELSE 0],
                        0, failAt)
            IN  ReplyFrom(h, hdr, body, r, [id |-> r.value], "create failed")

\* PUT /api/accounts
AccountsPUT(hdr, body, failAt) ==
    LET h == "PUT /api/accounts" IN
    /\ UNCHANGED <<appPin, now, sumVars, stepVars>>
    /\ IF ~VerifyAuthHeader(appPin, hdr) THEN Unauthorized(h, hdr, body)
       ELSE IF ~Has(body.id)
       THEN BadRequest(h, hdr, body, "missing id")
       ELSE LET r == updateAccount(accounts, transactions, Val(body.id),
                                   body, 0, failAt)
            IN  ReplyFrom(h, hdr, body, r, [success |-> TRUE],
                          "update failed")

\* POST /api/transactions
TransactionsPOSTZeroRejected(hdr, body, failAt) ==
    LET h == "POST /api/transactions" IN
    /\ UNCHANGED <<appPin, now, sumVars, stepVars>>
    /\ IF ~VerifyAuthHeader(appPin, hdr) THEN Unauthorized(h, hdr, body)
       ELSE IF \/ ~Has(body.name) \/ Val(body.name) = ""
               \/ ~Has(body.category) \/ Val(body.category) = ""
               \/ ~Has(body.date) \/ Val(body.date) = 0
               \/ ~Has(body.amount) \/ Val(body.amount) = 0
               \/ ~Has(body.account) \/ Val(body.account) = ""
       THEN BadRequest(h, hdr, body, "missing fields")
       ELSE LET r == createTransaction(accounts, transactions,
                        [name |-> Val(body.name),
                         category |-> Val(body.category),
                         date |-> Val(body.date),
                         amount |-> Val(body.amount),
                         account |-> Val(body.account),
                         note |-> IF Has(body.note) THEN Val(body.note)
                                  ELSE <<>>],
                        0, failAt)
            IN  ReplyFrom(h, hdr, body, r, [id |-> r.value], "create failed")

TransactionsPOST(hdr, body, failAt) ==
    LET h == "POST /api/transactions" IN
    /\ UNCHANGED <<appPin, now, sumVars, stepVars>>
    /\ IF ~VerifyAuthHeader(appPin, hdr) THEN Unauthorized(h, hdr, body)
       ELSE IF \/ ~Has(body.name) \/ Val(body.name) = ""
               \/ ~Has(body.category) \/ Val(body.category) = ""
               \/ ~Has(body.date) \/ Val(body.date) = 0
               \/ ~Has(body.amount)
               \/ ~Has(body.account) \/ Val(body.account) = ""
       THEN BadRequest(h, hdr, body, "missing fields")
       ELSE LET r == createTransaction(accounts, transactions,
                        [name |-> Val(body.name),
                         category |-> Val(body.category),
                         date |-> Val(body.date),
                         amount |-> Val(body.amount),
                         account |-> Val(body.account),
                         note |-> IF Has(body.note) THEN Val(body.note)
                                  ELSE <<>>],
                        0, failAt)
            IN  ReplyFrom(h, hdr, body, r, [id |-> r.value], "create failed")

\* GET /api/transactions?startDate&endDate
TransactionsGET(hdr, startDate, endDate, failAt) ==
    LET h == "GET /api/transactions"
        body == [startDate |-> startDate, endDate |-> endDate] IN
    /\ UNCHANGED <<appPin, now, sumVars, stepVars>>
    /\ IF ~VerifyAuthHeader(appPin, hdr) THEN Unauthorized(h, hdr, body)
       ELSE LET r == getTransactions(accounts, transactions,
                                     startDate, endDate, 0, failAt)
            IN  ReplyFrom(h, hdr, body, r, r.value, "query failed")

\* PUT /api/transactions
TransactionsPUT(hdr, body, failAt) ==
    LET h == "PUT /api/transactions" IN
    /\ UNCHANGED <<appPin, now, sumVars, stepVars>>
    /\ IF ~VerifyAuthHeader(appPin, hdr) THEN Unauthorized(h, hdr, body)
       ELSE IF ~Has(body.id)
       THEN BadRequest(h, hdr, body, "missing id")
       ELSE LET r == updateTransaction(accounts, transactions,
                                       Val(body.id), body, 0, failAt)
            IN  ReplyFrom(h, hdr, body, r, [success |-> TRUE],
                          "update failed")

\* DELETE /api/transactions?id=
TransactionsDELETE(hdr, id, failAt) ==
    LET h == "DELETE /api/transactions"
        body == [id |-> id] IN
    /\ UNCHANGED <<appPin, now, sumVars, stepVars>>
    /\ IF ~VerifyAuthHeader(appPin, hdr) THEN Unauthorized(h, hdr, body)
       ELSE IF ~Has(id)
       THEN BadRequest(h, hdr, body, "missing id")
       ELSE LET r == deleteTransaction(accounts, transactions, Val(id),
                                       0, failAt)
            IN  ReplyFrom(h, hdr, body, r, [success |-> TRUE],
                          "delete failed")

\* GET /api/summary?year&month (year and month after parseInt/defaulting)
SummaryGETCachesPartial(hdr, year, month, failAt) ==
    LET h == "GET /api/summary"
        body == [year |-> year, month |-> month]
        cacheKey == SummaryCacheKey(year, month)
        cached == CacheGet(cache, cacheKey, <<>>, now)
        monthly == getSummary(accounts, transactions, year, month, 0, failAt)
        yearly == getSummary(accounts, transactions, year, 0, 2, failAt)
        calls == monthly.calls \o yearly.calls
        data == [monthly |-> monthly.value, yearly |-> yearly.value]
    IN
    /\ UNCHANGED <<appPin, now, sumVars, stepVars, accounts, transactions>>
    /\ IF ~VerifyAuthHeader(appPin, hdr)
       THEN /\ Reply(h, hdr, body, 401, <<"unauthorized">>, <<>>, <<>>, <<>>)
            /\ UNCHANGED cache
       ELSE IF Has(cached.value)
       THEN /\ Reply(h, hdr, body, 200, <<>>, Val(cached.value), <<>>,
                     <<"get">>)
            /\ cache' = cached.cache
       ELSE IF monthly.ok /\ yearly.ok
       THEN /\ Reply(h, hdr, body, 200, <<>>, data, calls, <<"get", "set">>)
            /\ cache' = CacheSet(cached.cache, cacheKey, data, now)
       ELSE /\ Reply(h, hdr, body, 500, <<"summary failed">>, <<>>, calls,
                     <<"get", "set">>)
            /\ cache' = CacheSet(cached.cache, cacheKey, data, now)

SummaryGET(hdr, year, month, failAt) ==
    LET h == "GET /api/summary"
        body == [year |-> year, month |-> month]
        cacheKey == SummaryCacheKey(year, month)
        cached == CacheGet(cache, cacheKey, <<>>, now)
        monthly == getSummary(accounts, transactions, year, month, 0, failAt)
        yearly == getSummary(accounts, transactions, year, 0, 2, failAt)
        calls == monthly.calls \o yearly.calls
        data == [monthly |-> monthly.value, yearly |-> yearly.value]
    IN
    /\ UNCHANGED <<appPin, now, sumVars, stepVars, accounts, transactions>>
    /\ IF ~VerifyAuthHeader(appPin, hdr)
       THEN /\ Reply(h, hdr, body, 401, <<"unauthorized">>, <<>>, <<>>, <<>>)
            /\ UNCHANGED cache
       ELSE IF Has(cached.value)
       THEN /\ Reply(h, hdr, body, 200, <<>>, Val(cached.value), <<>>,
                     <<"get">>)
            /\ cache' = cached.cache
       ELSE IF monthly.ok /\ yearly.ok
       THEN /\ Reply(h, hdr, body, 200, <<>>, data, calls, <<"get", "set">>)
            /\ cache' = CacheSet(cached.cache, cacheKey, data, now)
       ELSE /\ Reply(h, hdr, body, 500, <<"summary failed">>, <<>>, calls,
                     <<"get">>)
            /\ cache' = cached.cache

\* The checks of POST /api/transfer on the body: "ok" or the 400 error.
TransferValidationSameAccountAllowed(body) ==
    IF \/ ~Has(body.fromAccount) \/ Val(body.fromAccount) = ""
       \/ ~Has(body.toAccount) \/ Val(body.toAccount) = ""
       \/ ~Has(body.amount) \/ Val(body.amount) = 0
       \/ ~Has(body.date) \/ Val(body.date) = 0
    THEN "missing fields"
    ELSE IF Val(body.amount) <= 0 THEN "amount must be positive"
    ELSE "ok"

TransferValidation(body) ==
    IF \/ ~Has(body.fromAccount) \/ Val(body.fromAccount) = ""
       \/ ~Has(body.toAccount) \/ Val(body.toAccount) = ""
       \/ ~Has(body.amount) \/ Val(body.amount) = 0
       \/ ~Has(body.date) \/ Val(body.date) = 0
    THEN "missing fields"
    ELSE IF Val(body.fromAccount) = Val(body.toAccount) THEN "same account"
    ELSE IF Val(body.amount) <= 0 THEN "amount must be positive"
    ELSE "ok"

\* The two Transaction objects POST /api/transfer passes to
\* createTransaction: the debit on fromAccount, then the credit on toAccount.
TransferLegsBothOnSource(body) ==
    <<[name |-> "transfer", category |-> "transfer", date |-> Val(body.date),
       amount |-> -Val(body.amount), account |-> Val(body.fromAccount),
       note |-> <<"transfer to", Val(body.toAccount)>>],
      [name |-> "transfer", category |-> "transfer", date |-> Val(body.date),
       amount |-> Val(body.amount), account |-> Val(body.fromAccount),
       note |-> <<"from", Val(body.fromAccount)>>]>>

TransferLegsCreditFirst(body) ==
    <<[name |-> "transfer", category |-> "transfer", date |-> Val(body.date),
       amount |-> Val(body.amount), account |-> Val(body.toAccount),
       note |-> <<"from", Val(body.fromAccount)>>],
      [name |-> "transfer", category |-> "transfer", date |-> Val(body.date),
       amount |-> -Val(body.amount), account |-> Val(body.fromAccount),
       note |-> <<"transfer to", Val(body.toAccount)>>]>>

TransferLegs(body) ==
    <<[name |-> "transfer", category |-> "transfer", date |-> Val(body.date),
       amount |-> -Val(body.amount), account |-> Val(body.fromAccount),
       note |-> <<"transfer to", Val(body.toAccount)>>],
      [name |-> "transfer", category |-> "transfer", date |-> Val(body.date),
       amount |-> Val(body.amount), account |-> Val(body.toAccount),
       note |-> <<"from", Val(body.fromAccount)>>]>>

\* POST /api/transfer (the handler does not call verifyAuthHeader)
TransferPOST(hdr, body, failAt) ==
    LET h == "POST /api/transfer"
        valid == TransferValidation(body)
        from == createTransaction(accounts, transactions,
                                  TransferLegs(body)[1], 0, failAt)
        to == createTransaction(from.accounts, from.transactions,
                                TransferLegs(body)[2], 2, failAt)
    IN
    /\ UNCHANGED <<appPin, now, sumVars, stepVars>>
    /\ IF valid # "ok" THEN BadRequest(h, hdr, body, valid)
       ELSE IF ~from.ok
       THEN ReplyFrom(h, hdr, body, from, <<>>, "transfer failed")
       ELSE ReplyFrom(h, hdr, body,
                      [to EXCEPT !.calls = from.calls \o to.calls],
                      [fromId |-> from.value, toId |-> to.value],
                      "transfer failed")

\* GET /api/accounts/carrier
CarrierGET(hdr, failAt) ==
    LET h == "GET /api/accounts/carrier" IN
    /\ UNCHANGED <<appPin, now, sumVars, stepVars>>
    /\ IF ~VerifyAuthHeader(appPin, hdr) THEN Unauthorized(h, hdr, NoBody)
       ELSE LET r == getCarrierAccount(accounts, transactions, 0, failAt)
            IN  ReplyFrom(h, hdr, NoBody, r, r.value, "query failed")

\* PUT /api/accounts/carrier
CarrierPUT(hdr, body, failAt) ==
    LET h == "PUT /api/accounts/carrier" IN
    /\ UNCHANGED <<appPin, now, sumVars, stepVars>>
    /\ IF ~VerifyAuthHeader(appPin, hdr) THEN Unauthorized(h, hdr, body)
       ELSE IF ~Has(body.accountId)
       THEN BadRequest(h, hdr, body, "missing account id")
       ELSE LET r == setCarrierAccount(accounts, transactions,
                                       Val(body.accountId), 0, failAt)
            IN  ReplyFrom(h, hdr, body, r, [success |-> TRUE],
                          "set carrier failed")

\* The body of a cache request as request.json() delivers it: json is
\* "unparsable" when the promise rejects, "null" for the JSON text null,
\* and "object" otherwise, with target <<>> when the object has none.
InvalidateBody(json, target) == [json |-> json, target |-> target]

\* POST /api/cache/invalidate. A rejected request.json() becomes {}; reading
\* body.target of null throws inside the try, which answers 500.
CacheInvalidateTargetOnly(hdr, body) ==
    LET h == "POST /api/cache/invalidate"
        t == IF Has(body.target) /\ Val(body.target) # ""
             THEN Val(body.target) ELSE "all"
        after == CASE t = "transactions" ->
                        CacheDeletePattern(cache, KeyTransactions \o <<"*">>)
                   [] t = "accounts" -> CacheDelete(cache, KeyAccounts)
                   [] OTHER -> CacheClear(cache)
        op == CASE t = "transactions" -> "deletePattern"
                [] t = "accounts" -> "delete"
                [] OTHER -> "clear"
    IN
    /\ UNCHANGED <<appPin, now, sumVars, stepVars, accounts, transactions>>
    /\ IF ~VerifyAuthHeader(appPin, hdr)
       THEN /\ Reply(h, hdr, body, 401, <<"unauthorized">>, <<>>, <<>>, <<>>)
            /\ UNCHANGED cache
       ELSE /\ Reply(h, hdr, body, 200, <<>>,
                     [message |-> t, stats |-> CacheStats(after)],
                     <<>>, <<op, "stats">>)
            /\ cache' = after

CacheInvalidatePOST(hdr, body) ==
    LET h == "POST /api/cache/invalidate"
        t == IF Has(body.target) /\ Val(body.target) # ""
             THEN Val(body.target) ELSE "all"
        after == CASE t = "transactions" ->
                        CacheDeletePattern(cache, KeyTransactions \o <<"*">>)
                   [] t = "accounts" -> CacheDelete(cache, KeyAccounts)
                   [] OTHER -> CacheClear(cache)
        op == CASE t = "transactions" -> "deletePattern"
                [] t = "accounts" -> "delete"
                [] OTHER -> "clear"
    IN
    /\ UNCHANGED <<appPin, now, sumVars, stepVars, accounts, transactions>>
    /\ IF ~VerifyAuthHeader(appPin, hdr)
       THEN /\ Reply(h, hdr, body, 401, <<"unauthorized">>, <<>>, <<>>, <<>>)
            /\ UNCHANGED cache
       ELSE IF body.json = "null"
       THEN /\ Reply(h, hdr, body, 500, <<"invalidate failed">>, <<>>,
                     <<>>, <<>>)
            /\ UNCHANGED cache
       ELSE /\ Reply(h, hdr, body, 200, <<>>,
                     [message |-> t, stats |-> CacheStats(after)],
                     <<>>, <<op, "stats">>)
            /\ cache' = after

\* GET /api/invoices: runs the scraper script, whose outcome is scriptOk.
InvoicesGET(hdr, scriptOk) ==
    LET h == "GET /api/invoices" IN
    /\ UNCHANGED <<appPin, now, sumVars, stepVars, accounts, transactions, cache>>
    /\ IF ~VerifyAuthHeader(appPin, hdr)
       THEN Reply(h, hdr, NoBody, 401, <<"unauthorized">>, <<>>, <<>>, <<>>)
       ELSE IF scriptOk
       THEN Reply(h, hdr, NoBody, 200, <<>>, <<"invoices">>, <<>>, <<>>)
       ELSE Reply(h, hdr, NoBody, 500, <<"invoices failed">>, <<>>, <<>>,
                  <<>>)

---------------------------------------------------------------------------------------------------------------------------------------------------
(* The requests and the initial stores of the model *)

Pins == {"", "1234"}

GoodHeader == <<"Bearer ", Sha256Hex("1234")>>
BadHeader == <<"Bearer ", Sha256Hex("0000")>>
Headers == {NoHeader, GoodHeader, BadHeader}

Opt(S) == {<<>>} \cup {<<x>> : x \in S}

Day1 == DateOf(2024, 3, 5)
Day2 == DateOf(2024, 2, 29)

AccountRow(n, name, flag) ==
    [id |-> AccountId(n), name |-> name, type |-> "cash",
     initialBalance |-> 1000, isCarrierAccount |-> flag]

TransactionPage(n, category, date, amount, account) ==
    [id |-> TransactionId(n), name |-> "lunch", category |-> category,
     date |-> date, amount |-> amount, account |-> AccountId(account),
     note |-> <<>>, archived |-> FALSE]

EmptyStore == [accounts |-> <<>>, transactions |-> <<>>]

CashOnlyStore ==
    [accounts |-> <<AccountRow(1, "Cash", FALSE)>>, transactions |-> <<>>]

CashBankStore ==
    [accounts |-> <<AccountRow(1, "Cash", FALSE), AccountRow(2, "Bank", TRUE)>>,
     transactions |-> <<TransactionPage(1, "food", Day1, -2, 1)>>]

\* The requests sent to a handler: every body and failure with the valid
\* token, and the first body with each of the other headers.
AuthCases(body0, bodies, fails) ==
    {<<GoodHeader, b, f>> : b \in bodies \cup {body0}, f \in fails}
        \cup {<<h, body0, 0>> : h \in Headers \ {GoodHeader}}

NoRequest == [handler |-> "none", hdr |-> NoHeader, body |-> NoBody]
NoResponse ==
    [status |-> 0, success |-> FALSE, error |-> <<>>, data |-> <<>>,
     calls |-> <<>>, cacheOps |-> <<>>]

SumIdle ==
    /\ sumTxs = <<>>
    /\ sumIdx = 1
    /\ sumAcc = ZeroAcc
    /\ sumPc = "idle"
    /\ sumResult = NoSummary

Callers == 1..MaxCallers

\* No setCarrierAccount call has been made.
CarrierIdle ==
    /\ setPc = [p \in Callers |-> "idle"]
    /\ setArg = [p \in Callers |-> UnknownId]
    /\ setTodo = [p \in Callers |-> <<>>]

Getters == 1..MaxGetters

\* No GET /api/summary has begun and the writing client has not started.
FlightIdle ==
    /\ getPc = [g \in Getters |-> "idle"]
    /\ getArg = [g \in Getters |-> <<0, 0>>]
    /\ getMonthly = [g \in Getters |-> <<>>]
    /\ getYearly = [g \in Getters |-> <<>>]
    /\ getResp = [g \in Getters |-> <<>>]
    /\ getSince = [g \in Getters |-> "start"]
    /\ writerPc = "start"

NoCall == [op |-> "none"]

CallIdle ==
    /\ cacheCall = NoCall
    /\ cacheRet = <<>>

NoQuery == [year |-> 0, month |-> 0, startDate |-> 0, endDate |-> 0]

QueryIdle == query = NoQuery

StepIdle == CarrierIdle /\ FlightIdle /\ CallIdle /\ QueryIdle

ApiInit(pins, stores) ==
    /\ appPin \in pins
    /\ \E st \in stores :
          /\ accounts = st.accounts
          /\ transactions = st.transactions
    /\ cache = EmptyCache
    /\ now = 0
    /\ served = 0
    /\ req = NoRequest
    /\ resp = NoResponse
    /\ SumIdle
    /\ StepIdle

Init == ApiInit(Pins, {EmptyStore, CashBankStore})

\* The bodies sent to /api/accounts; flag is the isCarrierAccount a client
\* puts into the body, <<>> when it puts none.
AccountBodyFlagged(name, flag) ==
    [name |-> name, type |-> <<"cash">>, initialBalance |-> <<1000>>,
     isCarrierAccount |-> flag]

AccountBody(name) == AccountBodyFlagged(name, <<>>)

AccountUpdateFlagged(id, name, flag) ==
    [id |-> id, name |-> name, type |-> <<>>, initialBalance |-> <<>>,
     isCarrierAccount |-> flag]

AccountUpdate(id, name) == AccountUpdateFlagged(id, name, <<>>)

TransactionBody(category, date, amount, account) ==
    [name |-> <<"lunch">>, category |-> category, date |-> date,
     amount |-> amount, account |-> account, note |-> <<>>]

TransactionUpdate(id, amount) ==
    [id |-> id, name |-> <<>>, category |-> <<>>, date |-> <<>>,
     amount |-> amount, account |-> <<>>, note |-> <<>>]

TransferBody(from, to, amount, date) ==
    [fromAccount |-> from, toAccount |-> to, amount |-> amount,
     date |-> date]

ServeAccountsGET ==
    /\ served < MaxRequests
    /\ \E c \in AuthCases(NoBody, {}, {0, 1}) : AccountsGET(c[1], c[3])

ServeAccountsPOST ==
    /\ served < MaxRequests
    /\ \E c \in AuthCases(AccountBody(<<"Cash">>),
                             {AccountBody(<<>>),
                              AccountBodyFlagged(<<"Card">>, <<TRUE>>)},
                             {0, 1}) :
             AccountsPOST(c[1], c[2], c[3])

ServeAccountsPUT ==
    /\ served < MaxRequests
    /\ \E c \in AuthCases(AccountUpdate(<<AccountId(1)>>, <<"Wallet">>),
                             {AccountUpdate(<<>>, <<"Wallet">>),
                              AccountUpdate(<<UnknownId>>, <<"Wallet">>),
                              AccountUpdateFlagged(<<AccountId(1)>>, <<>>,
                                                   <<TRUE>>),
                              AccountUpdateFlagged(<<AccountId(2)>>,
                                                   <<"Wallet">>, <<FALSE>>)},
                             {0}) :
             AccountsPUT(c[1], c[2], c[3])

ServeTransactionsPOST ==
    /\ served < MaxRequests
    /\ \E c \in AuthCases(
                      TransactionBody(<<"food">>, <<Day1>>, <<-2>>, <<"Cash">>),
                      {TransactionBody(<<"food">>, <<Day1>>, <<>>, <<"Cash">>),
                       TransactionBody(<<"food">>, <<Day1>>, <<3>>, <<"Nope">>)},
                      {0, 2}) :
             TransactionsPOST(c[1], c[2], c[3])

ServeTransactionsGET ==
    /\ served < MaxRequests
    /\ \E c \in AuthCases(<<<<>>, <<>>>>, {<<<<Day1>>, <<Day1>>>>},
                             {0, 1}) :
             TransactionsGET(c[1], c[2][1], c[2][2], c[3])

ServeTransactionsPUT ==
    /\ served < MaxRequests
    /\ \E c \in AuthCases(TransactionUpdate(<<TransactionId(1)>>, <<3>>),
                             {TransactionUpdate(<<>>, <<3>>)}, {0}) :
             TransactionsPUT(c[1], c[2], c[3])

ServeTransactionsDELETE ==
    /\ served < MaxRequests
    /\ \E c \in AuthCases(<<TransactionId(1)>>, {<<>>}, {0, 1}) :
             TransactionsDELETE(c[1], c[2], c[3])

ServeSummaryGET ==
    /\ served < MaxRequests
    /\ \E c \in AuthCases(<<2024, 3>>, {}, {0, 3}) :
             SummaryGET(c[1], c[2][1], c[2][2], c[3])

ServeTransferPOST ==
    /\ served < MaxRequests
    /\ \E c \in AuthCases(
                      TransferBody(<<"Cash">>, <<"Bank">>, <<3>>, <<Day1>>),
                      {TransferBody(<<"Cash">>, <<"Bank">>, <<0>>, <<Day1>>)},
                      {0, 4}) :
             TransferPOST(c[1], c[2], c[3])

ServeCarrierGET ==
    /\ served < MaxRequests
    /\ \E c \in AuthCases(NoBody, {}, {0, 1}) : CarrierGET(c[1], c[3])

ServeCarrierPUT ==
    /\ served < MaxRequests
    /\ \E c \in AuthCases([accountId |-> <<AccountId(1)>>],
                             {[accountId |-> <<>>]}, {0, 3}) :
             CarrierPUT(c[1], c[2], c[3])

ServeCacheInvalidatePOST ==
    /\ served < MaxRequests
    /\ \E c \in AuthCases(InvalidateBody("unparsable", <<>>),
                          {InvalidateBody("object", <<"transactions">>),
                           InvalidateBody("object", <<"accounts">>),
                           InvalidateBody("null", <<>>)},
                          {0}) :
             CacheInvalidatePOST(c[1], c[2])

ServeInvoicesGET ==
    /\ served < MaxRequests
    /\ \E c \in AuthCases(TRUE, {FALSE}, {0}) : InvoicesGET(c[1], c[2])

Next ==
    \/ ServeAccountsGET
    \/ ServeAccountsPOST
    \/ ServeAccountsPUT
    \/ ServeTransactionsPOST
    \/ ServeTransactionsGET
    \/ ServeTransactionsPUT
    \/ ServeTransactionsDELETE
    \/ ServeSummaryGET
    \/ ServeTransferPOST
    \/ ServeCarrierGET
    \/ ServeCarrierPUT
    \/ ServeCacheInvalidatePOST
    \/ ServeInvoicesGET

Spec == Init /\ [][Next]_vars

----------------------------------------------------------------------------
(* Transfers: POST /api/transfer with every shape of body, on stores with  *)
(* no, one or both of the accounts it names.                               *)

AccountNames == {"Cash", "Bank"}

TransferBodies ==
    [fromAccount : Opt(AccountNames), toAccount : Opt(AccountNames),
     amount : Opt({-3, 0, 3}), date : Opt({Day1, Day2})]

TransferInit == ApiInit({"1234"}, {EmptyStore, CashOnlyStore, CashBankStore})

ServeAnyTransferPOST ==
    /\ served < MaxRequests
    /\ \E body \in TransferBodies, failAt \in 0..4 :
          TransferPOST(GoodHeader, body, failAt)

SummaryPeriods == {<<2024, 3>>, <<2024, 2>>, <<2024, 0>>, <<2023, 3>>}

ServeAnySummaryGET ==
    /\ served < MaxRequests
    /\ \E p \in SummaryPeriods : SummaryGET(GoodHeader, p[1], p[2], 0)

TransferNext == ServeAnyTransferPOST \/ ServeAnySummaryGET

SpecTransfer == TransferInit /\ [][TransferNext]_vars

SumInit ==
    /\ appPin = ""
    /\ accounts = <<>>
    /\ transactions = <<>>
    /\ cache = EmptyCache
    /\ now = 0
    /\ served = 0
    /\ req = NoRequest
    /\ resp = NoResponse
    /\ sumTxs \in SeqsUpTo(FetchedTx, MaxFetched)
    /\ sumIdx = 1
    /\ sumAcc = ZeroAcc
    /\ sumPc = "loop"
    /\ sumResult = NoSummary
    /\ StepIdle

SumLoopStep ==
    /\ sumPc = "loop"
    /\ sumIdx <= Len(sumTxs)
    /\ sumAcc' = SummaryStep(sumAcc, sumTxs[sumIdx])
    /\ sumIdx' = sumIdx + 1
    /\ UNCHANGED <<sumTxs, sumPc, sumResult, apiVars, stepVars>>

SumReturn ==
    /\ sumPc = "loop"
    /\ sumIdx > Len(sumTxs)
    /\ sumResult' = MakeSummary(sumAcc)
    /\ sumPc' = "done"
    /\ UNCHANGED <<sumTxs, sumIdx, sumAcc, apiVars, stepVars>>

SumNext == SumLoopStep \/ SumReturn

SpecSummary == SumInit /\ [][SumNext]_vars

----------------------------------------------------------------------------
(* setCarrierAccount, one await at a time: lib/notion.ts *)

\* accounts.filter(a => a.isCarrierAccount), as page ids in query order.
CarrierAccountsFirstOnly(accts) ==
    LET flagged == SelectSeq(accts, LAMBDA a : a.isCarrierAccount)
    IN  IF flagged = <<>> THEN <<>> ELSE <<flagged[1].id>>

CarrierAccounts(accts) ==
    LET flagged == SelectSeq(accts, LAMBDA a : a.isCarrierAccount)
    IN  [i \in 1..Len(flagged) |-> flagged[i].id]

\* notion.pages.update({ page_id: id, properties: { carrier checkbox } })
SetCheckbox(accts, id, flag) ==
    [i \in 1..Len(accts) |->
        IF accts[i].id = id
        THEN [accts[i] EXCEPT !.isCarrierAccount = flag]
        ELSE accts[i]]

\* The accounts that carry the flag in the store.
Flagged(accts) ==
    {accts[i].id : i \in {j \in 1..Len(accts) : accts[j].isCarrierAccount}}

\* setCarrierAccount(accountId) is called.
SetCall(p, accountId) ==
    /\ setPc[p] = "idle"
    /\ setPc' = [setPc EXCEPT ![p] = "query"]
    /\ setArg' = [setArg EXCEPT ![p] = accountId]
    /\ UNCHANGED <<setTodo, apiVars, sumVars, flightVars, callVars, queryVars>>

\* const accounts = await getAccounts(); const carrierAccounts = ...
SetQuery(p) ==
    /\ setPc[p] = "query"
    /\ setTodo' = [setTodo EXCEPT ![p] = CarrierAccounts(accounts)]
    /\ setPc' = [setPc EXCEPT ![p] = "update"]
    /\ UNCHANGED <<setArg, apiVars, sumVars, flightVars, callVars, queryVars>>

\* One iteration of the loop: the checkbox of the next carrierAccount is
\* cleared.
SetClear(p) ==
    /\ setPc[p] = "update"
    /\ setTodo[p] # <<>>
    /\ accounts' = SetCheckbox(accounts, Head(setTodo[p]), FALSE)
    /\ setTodo' = [setTodo EXCEPT ![p] = Tail(@)]
    /\ UNCHANGED <<setPc, setArg, appPin, transactions, cache, now, served,
                   req, resp, sumVars, flightVars, callVars, queryVars>>

\* The last update: the checkbox of accountId is set. The store rejects a
\* page id that is not one of its account pages.
SetMark(p) ==
    /\ setPc[p] = "update"
    /\ setTodo[p] = <<>>
    /\ IF AccountIndex(accounts, setArg[p]) = 0
       THEN /\ setPc' = [setPc EXCEPT ![p] = "threw"]
            /\ UNCHANGED accounts
       ELSE /\ setPc' = [setPc EXCEPT ![p] = "returned"]
            /\ accounts' = SetCheckbox(accounts, setArg[p], TRUE)
    /\ UNCHANGED <<setArg, setTodo, appPin, transactions, cache, now, served,
                   req, resp, sumVars, flightVars, callVars, queryVars>>

\* The Notion call the function is waiting for fails: the function throws
\* and what it has written stays.
SetThrow(p) ==
    /\ setPc[p] \in {"query", "update"}
    /\ setPc' = [setPc EXCEPT ![p] = "threw"]
    /\ UNCHANGED <<setArg, setTodo, apiVars, sumVars, flightVars, callVars, queryVars>>

\* Three accounts, those of `flags` carrying the carrier checkbox.
CarrierStore(flags) ==
    <<AccountRow(1, "Cash", 1 \in flags), AccountRow(2, "Bank", 2 \in flags),
      AccountRow(3, "Card", 3 \in flags)>>

CarrierTargets == {AccountId(1), AccountId(2), AccountId(3), UnknownId}

CarrierInit(flagSets) ==
    /\ appPin = "1234"
    /\ \E flags \in flagSets : accounts = CarrierStore(flags)
    /\ transactions = <<>>
    /\ cache = EmptyCache
    /\ now = 0
    /\ served = 0
    /\ req = NoRequest
    /\ resp = NoResponse
    /\ SumIdle
    /\ StepIdle

\* No other call is between its first and its last await.
Alone(p) ==
    \A q \in Callers \ {p} : setPc[q] \in {"idle", "returned", "threw"}

SoloCall(p) == Alone(p) /\ \E id \in CarrierTargets : SetCall(p, id)
SoloQuery(p) == Alone(p) /\ SetQuery(p)
SoloClear(p) == Alone(p) /\ SetClear(p)
SoloMark(p) == Alone(p) /\ SetMark(p)
SoloThrow(p) == Alone(p) /\ SetThrow(p)

\* Calls of setCarrierAccount made one after the other, from any flags.
SoloInit == CarrierInit(SUBSET {1, 2, 3})

SoloNext ==
    \E p \in Callers :
        \/ SoloCall(p)
        \/ SoloQuery(p)
        \/ SoloClear(p)
        \/ SoloMark(p)
        \/ SoloThrow(p)

SpecCarrier == SoloInit /\ [][SoloNext]_vars

RaceCall(p) == \E id \in CarrierTargets : SetCall(p, id)

\* Calls of setCarrierAccount whose awaits interleave, from a store in which
\* at most one account is flagged.
RaceInit == CarrierInit({{}, {1}, {2}, {3}})

RaceNext ==
    \E p \in Callers :
        \/ RaceCall(p)
        \/ SetQuery(p)
        \/ SetClear(p)
        \/ SetMark(p)
        \/ SetThrow(p)

SpecCarrierRace == RaceInit /\ [][RaceNext]_vars

----------------------------------------------------------------------------
(* GET /api/summary one await at a time, next to a client that writes an
   entry and then invalidates the cache: app/api/summary/route.ts *)

\* const data = { monthly, yearly } of the store (accts, txs)
SummaryData(accts, txs, year, month) ==
    [monthly |-> getSummary(accts, txs, year, month, 0, 0).value,
     yearly |-> getSummary(accts, txs, year, 0, 0, 0).value]

FlightPeriods == {<<2024, 3>>, <<2024, 2>>}

FlightKey(g) == SummaryCacheKey(getArg[g][1], getArg[g][2])

Answer(status, data) == <<[status |-> status, data |-> data]>>

\* The handler runs up to its first await: the token is valid, cache.get is
\* made, and a hit is answered at once.
GetBegin(g, period) ==
    /\ getPc[g] = "idle"
    /\ LET cached == CacheGet(cache, SummaryCacheKey(period[1], period[2]),
                              <<>>, now)
       IN  /\ cache' = cached.cache
           /\ IF Has(cached.value)
              THEN /\ getPc' = [getPc EXCEPT ![g] = "done"]
                   /\ getResp' = [getResp EXCEPT
                                     ![g] = Answer(200, Val(cached.value))]
              ELSE /\ getPc' = [getPc EXCEPT ![g] = "fetch"]
                   /\ UNCHANGED getResp
    /\ getArg' = [getArg EXCEPT ![g] = period]
    /\ getSince' = [getSince EXCEPT ![g] = writerPc]
    /\ UNCHANGED <<getMonthly, getYearly, writerPc, appPin, accounts,
                   transactions, now, served, req, resp, sumVars, carrierVars,
                   callVars, queryVars>>

\* getSummary(year, month) of the Promise.all reads the store.
GetMonthly(g) ==
    /\ getPc[g] = "fetch"
    /\ getMonthly[g] = <<>>
    /\ getMonthly' = [getMonthly EXCEPT ![g] =
            <<getSummary(accounts, transactions, getArg[g][1], getArg[g][2],
                         0, 0).value>>]
    /\ UNCHANGED <<getPc, getArg, getYearly, getResp, getSince, writerPc,
                   apiVars, sumVars, carrierVars, callVars, queryVars>>

\* getSummary(year) of the Promise.all reads the store.
GetYearly(g) ==
    /\ getPc[g] = "fetch"
    /\ getYearly[g] = <<>>
    /\ getYearly' = [getYearly EXCEPT ![g] =
            <<getSummary(accounts, transactions, getArg[g][1], 0, 0, 0).value>>]
    /\ UNCHANGED <<getPc, getArg, getMonthly, getResp, getSince, writerPc,
                   apiVars, sumVars, carrierVars, callVars, queryVars>>

\* Promise.all has resolved: cache.set(cacheKey, data) and the answer.
GetStore(g) ==
    /\ getPc[g] = "fetch"
    /\ Has(getMonthly[g]) /\ Has(getYearly[g])
    /\ LET data == [monthly |-> Val(getMonthly[g]),
                    yearly |-> Val(getYearly[g])]
       IN  /\ cache' = CacheSet(cache, FlightKey(g), data, now)
           /\ getResp' = [getResp EXCEPT ![g] = Answer(200, data)]
    /\ getPc' = [getPc EXCEPT ![g] = "done"]
    /\ UNCHANGED <<getArg, getMonthly, getYearly, getSince, writerPc, appPin,
                   accounts, transactions, now, served, req, resp, sumVars,
                   carrierVars, callVars, queryVars>>

\* A Notion query of either getSummary is rejected: the catch answers 500.
GetFail(g) ==
    /\ getPc[g] = "fetch"
    /\ getPc' = [getPc EXCEPT ![g] = "done"]
    /\ getResp' = [getResp EXCEPT ![g] = Answer(500, <<>>)]
    /\ UNCHANGED <<getArg, getMonthly, getYearly, getSince, writerPc, apiVars,
                   sumVars, carrierVars, callVars, queryVars>>

WrittenEntry ==
    [name |-> "bonus", category |-> "salary", date |-> Day1, amount |-> 3,
     account |-> "Cash", note |-> ""]

\* The writing client's POST /api/transactions completes: the entry is in
\* the store.
WriterWrite ==
    /\ writerPc = "start"
    /\ transactions' =
          createTransaction(accounts, transactions, WrittenEntry, 0, 0)
             .transactions
    /\ writerPc' = "written"
    /\ UNCHANGED <<getPc, getArg, getMonthly, getYearly, getResp, getSince,
                   appPin, accounts, cache, now, served, req, resp, sumVars,
                   carrierVars, callVars, queryVars>>

\* The writing client's POST /api/cache/invalidate (target all) completes.
WriterInvalidate ==
    /\ writerPc = "written"
    /\ cache' = CacheClear(cache)
    /\ writerPc' = "invalidated"
    /\ UNCHANGED <<getPc, getArg, getMonthly, getYearly, getResp, getSince,
                   appPin, accounts, transactions, now, served, req, resp,
                   sumVars, carrierVars, callVars, queryVars>>

FlightInit == ApiInit({"1234"}, {CashBankStore})

FlightNext ==
    \/ \E g \in Getters :
          \/ \E period \in FlightPeriods : GetBegin(g, period)
          \/ GetMonthly(g)
          \/ GetYearly(g)
          \/ GetStore(g)
          \/ GetFail(g)
    \/ WriterWrite
    \/ WriterInvalidate

SpecFlight == FlightInit /\ [][FlightNext]_vars

----------------------------------------------------------------------------
(* The methods of MemoryCache called in any order: lib/cache.ts *)

CacheKeys == {SummaryCacheKey(2024, 3), KeyAccounts, KeyTransactions}

CacheData == {1, 2}

CacheTtls == {<<>>, <<0>>, <<1>>}

CachePatterns ==
    {<<"s", "u", "m", "m", "a", "r", "y", ":", "*">>,
     KeyTransactions \o <<"*">>,
     <<"a", "c", "c", ".", "u", "n", "t", "s">>,
     <<"*", "s">>}

\* A method call: its name, its key or pattern, and its data and ttl
\* arguments when it has them.
Call(op, key, data, ttl) == [op |-> op, key |-> key, data |-> data, ttl |-> ttl]

\* What a method of the cache leaves alone.
CacheFrame ==
    UNCHANGED <<appPin, accounts, transactions, served, req, resp, sumVars,
                carrierVars, flightVars, queryVars>>

CallSet(key, data) ==
    /\ cache' = CacheSet(cache, key, data, now)
    /\ cacheCall' = Call("set", key, <<data>>, <<>>)
    /\ cacheRet' = <<>>
    /\ UNCHANGED now /\ CacheFrame

CallGet(key, ttl) ==
    LET r == CacheGet(cache, key, ttl, now)
    IN  /\ cache' = r.cache
        /\ cacheCall' = Call("get", key, <<>>, ttl)
        /\ cacheRet' = r.value
        /\ UNCHANGED now /\ CacheFrame

CallDelete(key) ==
    /\ cache' = CacheDelete(cache, key)
    /\ cacheCall' = Call("delete", key, <<>>, <<>>)
    /\ cacheRet' = <<>>
    /\ UNCHANGED now /\ CacheFrame

CallDeletePattern(pattern) ==
    /\ cache' = CacheDeletePattern(cache, pattern)
    /\ cacheCall' = Call("deletePattern", pattern, <<>>, <<>>)
    /\ cacheRet' = <<>>
    /\ UNCHANGED now /\ CacheFrame

CallClear ==
    /\ cache' = CacheClear(cache)
    /\ cacheCall' = Call("clear", <<>>, <<>>, <<>>)
    /\ cacheRet' = <<>>
    /\ UNCHANGED now /\ CacheFrame

\* Date.now() advances between two calls.
Tick ==
    /\ now < MaxNow
    /\ now' = now + 1
    /\ UNCHANGED <<cache, cacheCall, cacheRet>>
    /\ CacheFrame

CacheInit == ApiInit({""}, {EmptyStore})

CacheNext ==
    \/ Tick
    \/ \E key \in CacheKeys, data \in CacheData : CallSet(key, data)
    \/ \E key \in CacheKeys, ttl \in CacheTtls : CallGet(key, ttl)
    \/ \E key \in CacheKeys : CallDelete(key)
    \/ \E pattern \in CachePatterns : CallDeletePattern(pattern)
    \/ CallClear

SpecCache == CacheInit /\ [][CacheNext]_vars

----------------------------------------------------------------------------
(* Entry writes and summaries through the endpoint layer, with every body
   and every failing Notion call *)

\* Bodies of POST /api/transactions; an empty date string is written 0.
EntryBodies ==
    [name : {<<>>, <<"">>, <<"lunch">>},
     category : {<<"">>, <<"food">>},
     date : {<<>>, <<0>>, <<Day1>>},
     amount : {<<>>, <<0>>, <<3>>},
     account : {<<>>, <<"">>, <<"Cash">>, <<"Nope">>},
     note : {<<>>}]

\* Bodies of PUT /api/transactions.
EntryUpdates ==
    [id : {<<>>, <<TransactionId(1)>>},
     name : {<<>>},
     category : {<<>>, <<"salary">>},
     date : {<<>>},
     amount : {<<>>, <<3>>},
     account : {<<>>, <<"">>, <<"Cash">>, <<"Nope">>},
     note : {<<>>}]

EntriesInit == ApiInit({"1234"}, {CashBankStore})

ServeEntryPOST ==
    /\ served < MaxRequests
    /\ \E body \in EntryBodies, failAt \in 0..2 :
          TransactionsPOST(GoodHeader, body, failAt)

ServeEntryPUT ==
    /\ served < MaxRequests
    /\ \E body \in EntryUpdates, failAt \in 0..2 :
          TransactionsPUT(GoodHeader, body, failAt)

ServeEntrySummaryGET ==
    /\ served < MaxRequests
    /\ \E period \in FlightPeriods, failAt \in 0..4 :
          SummaryGET(GoodHeader, period[1], period[2], failAt)

EntriesNext == ServeEntryPOST \/ ServeEntryPUT \/ ServeEntrySummaryGET

SpecEntries == EntriesInit /\ [][EntriesNext]_vars

----------------------------------------------------------------------------
(* The ledger: entries updated, archived and listed through
   /api/transactions, over a store holding entries of equal and of
   different dates *)

Day3 == DateOf(2024, 1, 31)

LedgerStore ==
    [accounts |-> <<AccountRow(1, "Cash", FALSE), AccountRow(2, "Bank", TRUE)>>,
     transactions |-> <<TransactionPage(1, "food", Day1, -2, 1),
                        TransactionPage(2, "salary", Day2, 3, 2),
                        TransactionPage(3, "food", Day1, 1, 1)>>]

\* Bodies of PUT /api/transactions: every choice of supplied fields for the
\* second entry, and bodies with an unknown account, an unknown id, no id.
LedgerUpdates ==
    [id : {<<TransactionId(2)>>},
     name : Opt({"dinner"}),
     category : Opt({"rent"}),
     date : Opt({Day3}),
     amount : Opt({0}),
     account : Opt({"Cash"}),
     note : Opt({"shared"})]
    \cup [id : {<<TransactionId(1)>>, <<UnknownId>>, <<>>},
          name : {<<"dinner">>}, category : {<<>>}, date : {<<>>},
          amount : {<<>>}, account : {<<>>, <<"Nope">>}, note : {<<>>}]

\* The startDate and endDate parameters of GET /api/transactions.
LedgerRanges ==
    {<<<<>>, <<>>>>, <<<<Day2>>, <<Day1>>>>, <<<<Day1>>, <<Day1>>>>,
     <<<<Day3>>, <<Day2>>>>, <<<<Day1>>, <<Day2>>>>,
     <<<<Day1>>, <<>>>>, <<<<>>, <<Day2>>>>}

LedgerIds == {<<>>, <<UnknownId>>} \cup {<<TransactionId(n)>> : n \in 1..3}

LedgerInit == ApiInit({"1234"}, {LedgerStore})

ServeLedgerPUT ==
    /\ served < MaxRequests
    /\ \E body \in LedgerUpdates, failAt \in 0..2 :
          TransactionsPUT(GoodHeader, body, failAt)

ServeLedgerDELETE ==
    /\ served < MaxRequests
    /\ \E id \in LedgerIds, failAt \in 0..1 :
          TransactionsDELETE(GoodHeader, id, failAt)

ServeLedgerGET ==
    /\ served < MaxRequests
    /\ \E range \in LedgerRanges, failAt \in 0..2 :
          TransactionsGET(GoodHeader, range[1], range[2], failAt)

LedgerNext == ServeLedgerPUT \/ ServeLedgerDELETE \/ ServeLedgerGET

SpecLedger == LedgerInit /\ [][LedgerNext]_vars

----------------------------------------------------------------------------
(* The aggregator over stores that hold up to and beyond one page of
   entries, called once per caller while the database is free to hold its
   pages in another order: lib/notion.ts getTransactions, getSummary *)

\* The number of entries a store holds next to its December entries.
MaxExtra == 2

Dec31 == DateOf(2024, 12, 31)
Jan15 == DateOf(2024, 1, 15)

FillerRow == [category |-> "food", date |-> Dec31, amount |-> -2]

ExtraRows ==
    {[category |-> "food", date |-> Dec31, amount |-> 3],
     [category |-> "salary", date |-> Jan15, amount |-> 1]}

\* n December expenses followed by the extra entries.
PagedStore(n, extra) ==
    LET row(i) == IF i <= n THEN FillerRow ELSE extra[i - n]
    IN  [accounts |-> <<AccountRow(1, "Cash", FALSE)>>,
         transactions |->
            [i \in 1..(n + Len(extra)) |->
                TransactionPage(i, row(i).category, row(i).date,
                                row(i).amount, 1)]]

FillCounts == {0, PageSize - 1, PageSize}

PagedStores ==
    {PagedStore(n, extra) :
        n \in FillCounts, extra \in SeqsUpTo(ExtraRows, MaxExtra)}

PagedPeriods == {<<2024, 1>>, <<2024, 12>>}

\* The first page the database holds, "" for an empty database.
FirstHeld == IF transactions = <<>> THEN "" ELSE transactions[1].id

\* Caller g, after the callers before it, makes the two calls of the
\* Promise.all: getSummary(year, month) and getSummary(year).
PagedCall(g, period) ==
    /\ getPc[g] = "idle"
    /\ \A h \in Getters : h < g => getPc[h] = "done"
    /\ getArg' = [getArg EXCEPT ![g] = period]
    /\ getMonthly' = [getMonthly EXCEPT ![g] =
            <<getSummary(accounts, transactions, period[1], period[2],
                         0, 0).value>>]
    /\ getYearly' = [getYearly EXCEPT ![g] =
            <<getSummary(accounts, transactions, period[1], 0, 0, 0).value>>]
    /\ getPc' = [getPc EXCEPT ![g] = "done"]
    /\ getSince' = [getSince EXCEPT ![g] = FirstHeld]
    /\ UNCHANGED <<getResp, writerPc, apiVars, sumVars, carrierVars, callVars, queryVars>>

\* The database holds the same pages in the opposite order: the order in
\* which a query returns pages of one date is not fixed by the sort.
StoreReorders ==
    /\ Len(transactions) > 1
    /\ transactions' =
          [i \in 1..Len(transactions) |->
              transactions[Len(transactions) + 1 - i]]
    /\ UNCHANGED <<appPin, accounts, cache, now, served, req, resp, sumVars,
                   stepVars>>

PagesInit == ApiInit({"1234"}, PagedStores)

PagesNext ==
    \/ \E g \in Getters, period \in PagedPeriods : PagedCall(g, period)
    \/ StoreReorders

SpecPages == PagesInit /\ [][PagesNext]_vars

----------------------------------------------------------------------------
(* The date range getSummary asks the store for, over years with and
   without a leap day and every month: lib/notion.ts getSummary *)

RangeYears == {1000, 1900, 1996, 1999, 2000, 2023, 2024, 2100, 2400, 9999}

\* getSummary(year, month) computes startDate and endDate and queries the
\* transactions with them; month 0 stands for a call without a month.
SummaryQuery(year, month) ==
    /\ LET range == SummaryRange(year, month)
       IN  query' = [year |-> year, month |-> month,
                     startDate |-> range.startDate,
                     endDate |-> range.endDate]
    /\ UNCHANGED <<apiVars, sumVars, carrierVars, flightVars, callVars>>

RangeInit == ApiInit({"1234"}, {CashBankStore})

RangeNext == \E year \in RangeYears, month \in 0..12 : SummaryQuery(year, month)

SpecRange == RangeInit /\ [][RangeNext]_vars

----------------------------------------------------------------------------
(* The authentication gate over Authorization header values that hold the
   digest with or without the words around it: lib/auth-middleware.ts *)

Digest == Sha256Hex("1234")

\* Header values next to the one the client sends: the digest alone, the
\* digest before or around the scheme, the scheme twice, the scheme in
\* lower case, the digest in upper case, further text, another PIN's
\* digest, the scheme alone and the empty string.
AuthHeaders ==
    {NoHeader, GoodHeader, BadHeader,
     <<Digest>>,
     <<Digest, "Bearer ">>,
     <<"03ac674216f3e15c761ee1a5e255f067",
       "Bearer ", "953623c8b388b4459e13f978d7c846f4">>,
     <<"Bearer ", "Bearer ", Digest>>,
     <<"bearer ", Digest>>,
     <<"Bearer ",
       "03AC674216F3E15C761EE1A5E255F067953623C8B388B4459E13F978D7C846F4">>,
     <<"Bearer ", Digest, "x">>,
     <<"Bearer ">>,
     <<>>}

AuthInit == ApiInit(Pins, {EmptyStore, CashBankStore})

ServeAuthAccountsGET ==
    /\ served < MaxRequests
    /\ \E hdr \in AuthHeaders, failAt \in {0, 1} : AccountsGET(hdr, failAt)

ServeAuthTransactionsDELETE ==
    /\ served < MaxRequests
    /\ \E hdr \in AuthHeaders :
          TransactionsDELETE(hdr, <<TransactionId(1)>>, 0)

AuthNext == ServeAuthAccountsGET \/ ServeAuthTransactionsDELETE

SpecAuth == AuthInit /\ [][AuthNext]_vars

----------------------------------------------------------------------------
(* Cache invalidation over a filled cache: app/api/cache/invalidate/route.ts *)

\* Keys a cache may hold: a summary key, the two CACHE_KEYS, a key that
\* extends "transactions", and keys that only resemble it.
InvalidateKeys ==
    {SummaryCacheKey(2024, 3),
     KeyAccounts,
     KeyTransactions,
     KeyTransactions \o <<":", "2", "0", "2", "4">>,
     SubSeq(KeyTransactions, 1, Len(KeyTransactions) - 1),
     <<"m", "y">> \o KeyTransactions}

InvalidateBodies ==
    {InvalidateBody("unparsable", <<>>), InvalidateBody("null", <<>>)}
        \cup {InvalidateBody("object", t) :
                t \in {<<>>, <<"">>, <<"all">>, <<"transactions">>,
                       <<"accounts">>, <<"summary">>, <<"Transactions">>}}

InvalidateInit == ApiInit({"1234"}, {EmptyStore})

\* cache.set(key, data) by a route that fills the cache.
InvalidateFill ==
    \E key \in InvalidateKeys :
       /\ cache' = CacheSet(cache, key, 1, now)
       /\ UNCHANGED <<now, cacheCall, cacheRet>>
       /\ CacheFrame

ServeInvalidatePOST ==
    /\ served < MaxRequests
    /\ \E hdr \in {GoodHeader, BadHeader}, body \in InvalidateBodies :
          CacheInvalidatePOST(hdr, body)

InvalidateNext ==
    \/ InvalidateFill
    \/ ServeInvalidatePOST

SpecInvalidate == InvalidateInit /\ [][InvalidateNext]_vars

----------------------------------------------------------------------------
(* getSummary over entries of several categories: lib/notion.ts *)

BreakdownCategories == {"food", "salary", "", "transfer"}

BreakdownAmounts == {-2, 0, 1, 3}

BreakdownTx == [category : BreakdownCategories, amount : BreakdownAmounts]

BreakdownInit ==
    /\ appPin = ""
    /\ accounts = <<>>
    /\ transactions = <<>>
    /\ cache = EmptyCache
    /\ now = 0
    /\ served = 0
    /\ req = NoRequest
    /\ resp = NoResponse
    /\ sumTxs \in SeqsUpTo(BreakdownTx, MaxFetched)
    /\ sumIdx = 1
    /\ sumAcc = ZeroAcc
    /\ sumPc = "loop"
    /\ sumResult = NoSummary
    /\ StepIdle

SpecBreakdown == BreakdownInit /\ [][SumNext]_vars

----------------------------------------------------------------------------
(* Properties of the endpoint layer, checked under Spec *)

\* C1: with APP_PIN configured, every handler answers a request whose
\* bearer token is missing or is not the SHA-256 hex of the PIN with 401,
\* and makes no Notion call and no cache call for it.
C1_UnauthenticatedRejected ==
    (/\ appPin # ""
     /\ req.handler # "none"
     /\ req.hdr # <<"Bearer ", Sha256Hex(appPin)>>)
        => (resp.status = 401 /\ resp.calls = <<>> /\ resp.cacheOps = <<>>)

\* C2 as stated: in every configuration GET /accounts without an
\* Authorization header is answered 401 with {success: false, error} and
\* the accounts database is not queried.
C2_NoHeaderAlways401 ==
    (req.handler = "GET /api/accounts" /\ req.hdr = NoHeader)
        => (/\ resp.status = 401
            /\ ~resp.success
            /\ Has(resp.error)
            /\ resp.calls = <<>>)

\* C2 amended: that holds when APP_PIN is configured; without APP_PIN the
\* same request is served, and the accounts database is queried.
C2_NoHeader401WhenPinSet ==
    (req.handler = "GET /api/accounts" /\ req.hdr = NoHeader)
        => IF appPin # ""
           THEN /\ resp.status = 401
                /\ ~resp.success
                /\ Has(resp.error)
                /\ resp.calls = <<>>
           ELSE /\ resp.status \in {200, 500}
                /\ resp.calls = <<"query accounts">>

C2_Witness ==
    /\ appPin # ""
    /\ req.handler = "GET /api/accounts"
    /\ req.hdr = NoHeader
    /\ resp.status = 401
    /\ Len(accounts) > 0

----------------------------------------------------------------------------
(* Properties of getSummary, checked under SpecSummary *)

\* The loop is about to process sumTxs[sumIdx], and this step processes it.
SumStepTaken ==
    sumPc = "loop" /\ sumIdx <= Len(sumTxs) /\ sumIdx' = sumIdx + 1

SumCounted(tx) == tx.category \notin ExcludedCategories

\* C3: an entry whose category is transfer, advance or advanceRepay changes
\* none of totalIncome, totalExpense, balance, byCategoryExpense and
\* byCategoryIncome, whatever its amount: the loop step leaves them as they
\* are, and the returned Summary is that of the list without such entries.
C3_ExcludedSkipped ==
    /\ [][(SumStepTaken /\ ~SumCounted(sumTxs[sumIdx]))
            => /\ sumAcc'.totalIncome = sumAcc.totalIncome
               /\ sumAcc'.totalExpense = sumAcc.totalExpense
               /\ sumAcc'.byCategoryExpense = sumAcc.byCategoryExpense
               /\ sumAcc'.byCategoryIncome = sumAcc.byCategoryIncome]_vars
    /\ [](sumPc = "done" =>
            LET kept == SummaryOf(SelectSeq(sumTxs, SumCounted))
            IN  /\ sumResult.totalIncome = kept.totalIncome
                /\ sumResult.totalExpense = kept.totalExpense
                /\ sumResult.balance = kept.balance
                /\ sumResult.byCategoryExpense = kept.byCategoryExpense
                /\ sumResult.byCategoryIncome = kept.byCategoryIncome)

C3_Witness ==
    /\ sumPc = "done"
    /\ \E i, j \in 1..Len(sumTxs) :
          /\ sumTxs[i].category = "advanceRepay" /\ sumTxs[i].amount > 0
          /\ sumTxs[j].category = "food" /\ sumTxs[j].amount > 0
    /\ sumResult.totalIncome > 0

\* C4 as stated: an entry with amount > 0 and a category outside the
\* exclusion set, whatever the category string, adds its amount to
\* totalIncome and to byCategoryIncome[category] and leaves totalExpense
\* and byCategoryExpense unchanged.
C4_IncomeAnyCategory ==
    [][(SumStepTaken /\ SumCounted(sumTxs[sumIdx]) /\ sumTxs[sumIdx].amount > 0)
        => LET tx == sumTxs[sumIdx] IN
           /\ sumAcc'.totalIncome = sumAcc.totalIncome + tx.amount
           /\ MapGet(sumAcc'.byCategoryIncome, tx.category)
                = MapGet(sumAcc.byCategoryIncome, tx.category) + tx.amount
           /\ sumAcc'.totalExpense = sumAcc.totalExpense
           /\ sumAcc'.byCategoryExpense = sumAcc.byCategoryExpense]_vars

\* C4 amended: that holds for every non-empty category; an entry whose
\* category is the empty string adds its amount to totalIncome only and
\* leaves byCategoryIncome unchanged.
C4_IncomeNamedCategory ==
    [][(SumStepTaken /\ SumCounted(sumTxs[sumIdx]) /\ sumTxs[sumIdx].amount > 0)
        => LET tx == sumTxs[sumIdx] IN
           /\ sumAcc'.totalIncome = sumAcc.totalIncome + tx.amount
           /\ IF tx.category # ""
              THEN sumAcc'.byCategoryIncome
                     = MapAdd(sumAcc.byCategoryIncome, tx.category, tx.amount)
              ELSE sumAcc'.byCategoryIncome = sumAcc.byCategoryIncome
           /\ sumAcc'.totalExpense = sumAcc.totalExpense
           /\ sumAcc'.byCategoryExpense = sumAcc.byCategoryExpense]_vars

C4_Witness ==
    /\ sumIdx = 3
    /\ sumTxs[1].category = "food" /\ sumTxs[1].amount = 1
    /\ sumTxs[2].category = "food" /\ sumTxs[2].amount = 3
    /\ sumAcc.byCategoryIncome = [k \in {"food"} |-> 4]
    /\ sumAcc.totalIncome = 4

\* C5 as stated: an entry with amount <= 0 (0 included) and a category
\* outside the exclusion set adds abs(amount) to totalExpense and to
\* byCategoryExpense[category] and leaves totalIncome and byCategoryIncome
\* unchanged.
C5_ExpenseAnyCategory ==
    [][(SumStepTaken /\ SumCounted(sumTxs[sumIdx]) /\ sumTxs[sumIdx].amount <= 0)
        => LET tx == sumTxs[sumIdx] IN
           /\ sumAcc'.totalExpense = sumAcc.totalExpense + Abs(tx.amount)
           /\ MapGet(sumAcc'.byCategoryExpense, tx.category)
                = MapGet(sumAcc.byCategoryExpense, tx.category) + Abs(tx.amount)
           /\ sumAcc'.totalIncome = sumAcc.totalIncome
           /\ sumAcc'.byCategoryIncome = sumAcc.byCategoryIncome]_vars

\* C5 amended: that holds for every non-empty category; an entry whose
\* category is the empty string adds abs(amount) to totalExpense only and
\* leaves byCategoryExpense unchanged.
C5_ExpenseNamedCategory ==
    [][(SumStepTaken /\ SumCounted(sumTxs[sumIdx]) /\ sumTxs[sumIdx].amount <= 0)
        => LET tx == sumTxs[sumIdx] IN
           /\ sumAcc'.totalExpense = sumAcc.totalExpense + Abs(tx.amount)
           /\ IF tx.category # ""
              THEN sumAcc'.byCategoryExpense
                     = MapAdd(sumAcc.byCategoryExpense, tx.category,
                              Abs(tx.amount))
              ELSE sumAcc'.byCategoryExpense = sumAcc.byCategoryExpense
           /\ sumAcc'.totalIncome = sumAcc.totalIncome
           /\ sumAcc'.byCategoryIncome = sumAcc.byCategoryIncome]_vars

C5_Witness ==
    /\ sumIdx = 3
    /\ sumTxs[1].category = "food" /\ sumTxs[1].amount = -2
    /\ sumTxs[2].category = "food" /\ sumTxs[2].amount = 0
    /\ sumAcc.byCategoryExpense = [k \in {"food"} |-> 2]
    /\ sumAcc.totalExpense = 2

\* C6: every returned Summary has balance = totalIncome - totalExpense,
\* totalIncome >= 0 and totalExpense >= 0.
C6_BalanceAndSigns ==
    sumPc = "done" =>
        /\ sumResult.balance = sumResult.totalIncome - sumResult.totalExpense
        /\ sumResult.totalIncome >= 0
        /\ sumResult.totalExpense >= 0

C6_Witness ==
    /\ sumPc = "done"
    /\ sumResult.totalIncome = 1
    /\ sumResult.totalExpense = 4
    /\ sumResult.balance = -3

\* The positions of the fetched entries counted on one side of a Summary
\* under a category of the breakdown maps.
CountedOn(income) ==
    {i \in 1..Len(sumTxs) :
        /\ SumCounted(sumTxs[i])
        /\ sumTxs[i].category # ""
        /\ income <=> (sumTxs[i].amount > 0)}

----------------------------------------------------------------------------
(* Properties of POST /api/transfer, checked under SpecTransfer *)

\* This step answers a POST /api/transfer.
TransferAnswered ==
    served' = served + 1 /\ req'.handler = "POST /api/transfer"

\* A transfer body with all four fields, distinct accounts and amount > 0.
WellFormedTransfer(body) ==
    /\ Has(body.fromAccount) /\ Has(body.toAccount)
    /\ Has(body.amount) /\ Has(body.date)
    /\ Val(body.fromAccount) # Val(body.toAccount)
    /\ Val(body.amount) > 0

Resolves(name) == \E i \in 1..Len(accounts) : accounts[i].name = name

AccountIdOf(name) ==
    accounts[CHOOSE i \in 1..Len(accounts) :
                /\ accounts[i].name = name
                /\ \A j \in 1..(i - 1) : accounts[j].name # name].id

\* page is the leg of the transfer `body` with this amount on this account.
IsLeg(page, body, amount, accountName) ==
    /\ page.amount = amount
    /\ page.account = AccountIdOf(accountName)
    /\ page.category = "transfer"
    /\ page.date = Val(body.date)
    /\ ~page.archived

\* The entries getSummary fetches for the period p = <<year, month>>.
FetchedFor(accts, txs, p) ==
    LET range == SummaryRange(p[1], p[2])
    IN  getTransactions(accts, txs, <<range.startDate>>, <<range.endDate>>,
                        0, 0).value

Without(rows, ids) == SelectSeq(rows, LAMBDA r : r.id \notin ids)

\* In every period the Summary is the Summary of the fetched entries other
\* than the two legs, and while the store fits in one page of the query it
\* is the Summary from before the transfer.
LegsNotCounted(fromId, toId) ==
    \A p \in SummaryPeriods :
        LET fetched == FetchedFor(accounts', transactions', p)
            summary == getSummary(accounts', transactions', p[1], p[2], 0, 0)
        IN  /\ summary.value = SummaryOf(Without(fetched, {fromId, toId}))
            /\ Len(transactions') <= PageSize =>
                  summary.value
                    = getSummary(accounts, transactions, p[1], p[2], 0, 0).value

\* C8: a well-formed transfer between two existing accounts, none of whose
\* store calls fails, creates exactly two entries, first -amount on
\* fromAccount and then +amount on toAccount, both of category transfer
\* and of the given date, returns their ids as fromId and toId, and changes
\* the Summary of no period.
C8_TransferCreatesTwoLegs ==
    [][(/\ TransferAnswered
        /\ WellFormedTransfer(req'.body)
        /\ Resolves(Val(req'.body.fromAccount))
        /\ Resolves(Val(req'.body.toAccount))
        /\ resp'.status # 500)
        => LET body == req'.body
               n == Len(transactions)
           IN  /\ resp'.status = 200
               /\ Len(transactions') = n + 2
               /\ SubSeq(transactions', 1, n) = transactions
               /\ IsLeg(transactions'[n + 1], body, -Val(body.amount),
                        Val(body.fromAccount))
               /\ IsLeg(transactions'[n + 2], body, Val(body.amount),
                        Val(body.toAccount))
               /\ transactions'[n + 1].id # transactions'[n + 2].id
               /\ \A i \in 1..n : transactions[i].id # transactions'[n + 1].id
                                  /\ transactions[i].id # transactions'[n + 2].id
               /\ resp'.data = [fromId |-> transactions'[n + 1].id,
                                toId |-> transactions'[n + 2].id]
               /\ accounts' = accounts
               /\ LegsNotCounted(transactions'[n + 1].id,
                                 transactions'[n + 2].id)]_vars

C8_Witness ==
    /\ req.handler = "POST /api/transfer"
    /\ resp.status = 200
    /\ served = 2
    /\ Len(transactions) = 5
    /\ transactions[4].amount = -3 /\ transactions[5].amount = 3
    /\ transactions[4].account = AccountId(2)
    /\ transactions[5].account = AccountId(1)
    /\ resp.data = [fromId |-> TransactionId(4), toId |-> TransactionId(5)]
    /\ \E p \in SummaryPeriods :
          \E i \in DOMAIN FetchedFor(accounts, transactions, p) :
             FetchedFor(accounts, transactions, p)[i].id = TransactionId(5)

\* C9: when the debit leg has been created and the credit leg fails (the
\* target account does not resolve, or a store call fails), the response is
\* 500, the debit entry stays in the store as the only leg, and the handler
\* makes no further store call: no delete, no retry.
C9_PartialTransferStays ==
    [][(/\ TransferAnswered
        /\ WellFormedTransfer(req'.body)
        /\ Len(resp'.calls) > 2)
        => LET body == req'.body
               n == Len(transactions)
           IN  /\ ~Resolves(Val(body.toAccount)) => resp'.status = 500
               /\ resp'.status # 200 =>
                    /\ resp'.status = 500
                    /\ ~resp'.success
                    /\ Len(transactions') = n + 1
                    /\ SubSeq(transactions', 1, n) = transactions
                    /\ IsLeg(transactions'[n + 1], body, -Val(body.amount),
                             Val(body.fromAccount))
                    /\ accounts' = accounts
                    /\ resp'.calls \in
                         {<<"query accounts", "create transaction",
                            "query accounts">>,
                          <<"query accounts", "create transaction",
                            "query accounts", "create transaction">>}]_vars

C9_Witness ==
    /\ req.handler = "POST /api/transfer"
    /\ resp.status = 500
    /\ Len(accounts) = 1
    /\ Val(req.body.toAccount) = "Bank"
    /\ resp.calls = <<"query accounts", "create transaction", "query accounts">>
    /\ Len(transactions) = 1
    /\ transactions[1].amount = -3

----------------------------------------------------------------------------
(* Properties of setCarrierAccount, checked under SpecCarrier and
   SpecCarrierRace *)

\* C11: when a call setCarrierAccount(X) that did not interleave with
\* another call returns, exactly one account carries the carrier flag and
\* it is X, whichever accounts carried it before.
C11_SoleCarrierAfterSet ==
    [][\A p \in Callers :
          (setPc[p] # "returned" /\ setPc'[p] = "returned")
             => Flagged(accounts') = {setArg[p]}]_vars

C11_Witness ==
    \E p \in Callers :
        /\ setPc[p] = "returned"
        /\ setArg[p] = AccountId(3)
        /\ Flagged(accounts) = {AccountId(3)}
        /\ \A q \in Callers \ {p} : setPc[q] = "idle"

\* C12: from a store with at most one flagged account, at most one account
\* carries the carrier flag in every reachable state, the states between
\* the awaits of interleaved setCarrierAccount calls included.
C12_AtMostOneCarrier ==
    Cardinality(Flagged(accounts)) <= 1

----------------------------------------------------------------------------
(* Properties of the summary cache against entry mutations, checked under
   Spec *)

EntryMutations ==
    {"POST /api/transactions", "PUT /api/transactions",
     "DELETE /api/transactions", "POST /api/transfer"}

YearOf(date) == date \div 10000

\* The dates of the entries this step created, changed or archived, before
\* and after the step.
ChangedDates ==
    LET changed == {i \in 1..Len(transactions') :
                       i > Len(transactions)
                          \/ transactions'[i] # transactions[i]}
    IN  {transactions'[i].date : i \in changed}
          \cup {transactions[i].date : i \in changed \cap DOMAIN transactions}

\* The cache keys whose data holds the monthly or the yearly Summary of a
\* period of this year.
SummaryKeysOfYear(year) == {SummaryCacheKey(year, m) : m \in 1..12}

\* The data GET /api/summary computes from the store after the step.
FreshSummary(year, month) ==
    SummaryData(accounts', transactions', year, month)

\* C13: every successful entry mutation (POST, PUT, DELETE on
\* /api/transactions, POST /api/transfer) leaves no cached summary key
\* covering the period of the entries it changed, and every GET /api/summary
\* answered 200 carries the Summary of the store as it is.
C13_MutationInvalidatesSummary ==
    [][/\ (/\ served' = served + 1
           /\ req'.handler \in EntryMutations
           /\ resp'.status = 200)
          => \A d \in ChangedDates :
                \A k \in SummaryKeysOfYear(YearOf(d)) : k \notin DOMAIN cache'
       /\ (/\ served' = served + 1
           /\ req'.handler = "GET /api/summary"
           /\ resp'.status = 200)
          => resp'.data = FreshSummary(req'.body.year, req'.body.month)]_vars

\* C14: every GET /api/summary that begins after the writing client's
\* store mutation and its following cache.clear have both completed is
\* answered with the Summary of the store that holds the mutation, also
\* when another GET /api/summary for the key was in flight meanwhile.
C14_FreshAfterInvalidate ==
    \A g \in Getters :
        (/\ getPc[g] = "done"
         /\ getSince[g] = "invalidated"
         /\ Val(getResp[g]).status = 200)
        => Val(getResp[g]).data
             = SummaryData(accounts, transactions, getArg[g][1], getArg[g][2])

----------------------------------------------------------------------------
(* Properties of MemoryCache, checked under SpecCache *)

\* This step is a call of the method op.
Called(op) == now' = now /\ cacheCall'.op = op

\* C15: a get(k) that follows a set(k, v) returns v, the v of the latest
\* set when there were several; a get(k) that follows delete(k) or clear()
\* returns null; after delete(k) and after clear() the key is not in the
\* cache, and only set(k, _) puts a key into the cache.
C15_RoundTrip ==
    [][/\ (Called("get") /\ cacheCall'.ttl = <<>> /\ cacheCall.op = "set"
              /\ cacheCall.key = cacheCall'.key)
          => cacheRet' = cacheCall.data
       /\ (Called("get") /\ (\/ cacheCall.op = "clear"
                             \/ /\ cacheCall.op = "delete"
                                /\ cacheCall.key = cacheCall'.key))
          => cacheRet' = <<>>
       /\ Called("set")
          => cache'[cacheCall'.key].data = Val(cacheCall'.data)
       /\ Called("delete") => cacheCall'.key \notin DOMAIN cache'
       /\ Called("clear") => DOMAIN cache' = {}
       /\ \A k \in CacheKeys :
             (k \notin DOMAIN cache /\ k \in DOMAIN cache')
                => Called("set") /\ cacheCall'.key = k
       /\ \A k \in CacheKeys :
             (Called("get") /\ cacheCall'.key = k /\ k \notin DOMAIN cache)
                => cacheRet' = <<>>]_vars

C15_Witness ==
    /\ cacheCall.op = "get"
    /\ cacheCall.key = KeyAccounts
    /\ cacheRet = <<2>>
    /\ cache[KeyAccounts].timestamp = 1
    /\ now = 2

RECURSIVE GlobMatch(_, _)
\* key matches pattern as a whole, "*" standing for any substring and every
\* other character for itself.
GlobMatch(pattern, key) ==
    IF pattern = <<>> THEN key = <<>>
    ELSE IF Head(pattern) = "*"
    THEN \/ GlobMatch(Tail(pattern), key)
         \/ key # <<>> /\ GlobMatch(pattern, Tail(key))
    ELSE /\ key # <<>>
         /\ Head(pattern) = Head(key)
         /\ GlobMatch(Tail(pattern), Tail(key))

\* C16: deletePattern(p) removes exactly the keys that match p with "*" as
\* any substring and every other character as itself, and leaves every
\* other key with its data and timestamp.
C16_DeletePatternIsGlob ==
    [][Called("deletePattern")
          => cache' = [k \in {x \in DOMAIN cache :
                                 ~GlobMatch(cacheCall'.key, x)} |-> cache[k]]]_vars

\* C17: get with the default ttl returns the data of every key in the
\* cache, at any time; a key leaves the cache only by delete, a matching
\* deletePattern, clear, or a get that finds it older than its ttl; get with
\* a ttl reports an entry older than the ttl absent and removes it, and
\* returns an entry of age <= ttl and leaves the cache unchanged.
C17_Lifetime ==
    [][/\ \A k \in DOMAIN cache :
             /\ (Called("get") /\ cacheCall'.key = k /\ cacheCall'.ttl = <<>>)
                => cacheRet' = <<cache[k].data>> /\ cache' = cache
             /\ (Called("get") /\ cacheCall'.key = k /\ cacheCall'.ttl # <<>>)
                => IF now - cache[k].timestamp > Val(cacheCall'.ttl)
                   THEN /\ cacheRet' = <<>>
                        /\ cache' = [x \in (DOMAIN cache) \ {k} |-> cache[x]]
                   ELSE /\ cacheRet' = <<cache[k].data>>
                        /\ cache' = cache
             /\ k \notin DOMAIN cache'
                => \/ Called("delete") /\ cacheCall'.key = k
                   \/ Called("deletePattern") /\ RegexTest(cacheCall'.key, k)
                   \/ Called("clear")
                   \/ /\ Called("get") /\ cacheCall'.key = k
                      /\ cacheCall'.ttl # <<>>
                      /\ now - cache[k].timestamp > Val(cacheCall'.ttl)
             /\ (k \in DOMAIN cache' /\ cache'[k] # cache[k])
                => Called("set") /\ cacheCall'.key = k
       /\ now' # now => cache' = cache]_vars

C17_Witness ==
    /\ cacheCall.op = "get"
    /\ cacheCall.key = KeyAccounts
    /\ cacheCall.ttl = <<1>>
    /\ cacheRet = <<>>
    /\ now = 2
    /\ KeyAccounts \notin DOMAIN cache
    /\ SummaryCacheKey(2024, 3) \in DOMAIN cache
    /\ cache[SummaryCacheKey(2024, 3)].timestamp = 0

----------------------------------------------------------------------------
(* Properties of entry writes and of GET /api/summary, checked under
   SpecEntries *)

\* This step answers a request to this handler.
Answered(handler) == served' = served + 1 /\ req'.handler = handler

\* C18: a GET /api/summary that misses the cache either computes both
\* Summaries, answers 200 with both and stores them under its key, or
\* answers 500 with success false, an error and no data, and leaves the
\* cache as it was, without an entry under its key.
C18_SummaryFailureLeavesCache ==
    [][Answered("GET /api/summary")
          => LET year == req'.body.year
                 month == req'.body.month
                 key == SummaryCacheKey(year, month)
                 data == SummaryData(accounts, transactions, year, month)
             IN  IF key \in DOMAIN cache
                 THEN /\ resp'.status = 200
                      /\ resp'.data = cache[key].data
                      /\ cache' = cache
                 ELSE \/ /\ resp'.status = 200
                         /\ resp'.data = data
                         /\ Len(resp'.calls) = 4
                         /\ cache' = CacheSet(cache, key, data, now)
                      \/ /\ resp'.status = 500
                         /\ ~resp'.success
                         /\ resp'.error # <<>>
                         /\ resp'.data = <<>>
                         /\ cache' = cache
                         /\ key \notin DOMAIN cache']_vars

C18_Witness ==
    /\ req.handler = "GET /api/summary"
    /\ req.body = [year |-> 2024, month |-> 3]
    /\ resp.status = 500
    /\ Len(resp.calls) = 3
    /\ DOMAIN cache = {SummaryCacheKey(2024, 2)}

\* The body passes the checks of POST /api/transactions.
EntryBodyValid(body) ==
    /\ Has(body.name) /\ Val(body.name) # ""
    /\ Has(body.category) /\ Val(body.category) # ""
    /\ Has(body.date) /\ Val(body.date) # 0
    /\ Has(body.amount)
    /\ Has(body.account) /\ Val(body.account) # ""

\* C19: a POST /api/transactions whose body passes validation, or a PUT
\* /api/transactions with an id and an account field, that names an account
\* no account row carries is answered 500 and writes nothing: the
\* transactions are as before.
C19_UnknownAccountWritesNothing ==
    [][(/\ \/ Answered("POST /api/transactions") /\ EntryBodyValid(req'.body)
           \/ Answered("PUT /api/transactions") /\ Has(req'.body.id)
        /\ Has(req'.body.account)
        /\ FindAccount(accounts, Val(req'.body.account)) = 0)
          => /\ resp'.status = 500
             /\ transactions' = transactions
             /\ accounts' = accounts]_vars

----------------------------------------------------------------------------
(* Properties of the ledger, checked under SpecLedger *)

EntryFields == {"name", "category", "date", "amount", "account", "note"}

\* The request just answered was sent to this handler.
Served(handler) == served' = served + 1 /\ req'.handler = handler

\* C21: a PUT /api/transactions (updateTransaction(id, partial)) changes
\* only fields of the entry id that the body supplies: the accounts, the
\* number of entries, every other entry, the id and the archived mark of
\* the entry and each of its fields the body leaves out stay as they were;
\* when the answer is 200 each supplied name, category, date, amount and
\* note holds the supplied value.
C21_UpdateChangesOnlySupplied ==
    [][Served("PUT /api/transactions") =>
          /\ accounts' = accounts
          /\ Len(transactions') = Len(transactions)
          /\ \A j \in 1..Len(transactions) :
                LET old == transactions[j]
                    new == transactions'[j]
                    body == req'.body
                IN  /\ new.id = old.id
                    /\ new.archived = old.archived
                    /\ \A f \in EntryFields :
                          new[f] # old[f]
                              => /\ Has(body.id)
                                 /\ old.id = Val(body.id)
                                 /\ Has(body[f])
                    /\ (resp'.status = 200 /\ Has(body.id)
                            /\ old.id = Val(body.id))
                          => /\ Has(body.name) => new.name = Val(body.name)
                             /\ Has(body.category)
                                   => new.category = Val(body.category)
                             /\ Has(body.date) => new.date = Val(body.date)
                             /\ Has(body.amount)
                                   => new.amount = Val(body.amount)
                             /\ Has(body.note) => new.note = body.note]_vars

\* An update of the category alone has been answered 200: the second entry
\* has the new category and its old name, date, amount, account and note.
C21_Witness ==
    /\ req.handler = "PUT /api/transactions"
    /\ resp.status = 200
    /\ req.body.id = <<TransactionId(2)>>
    /\ Has(req.body.category)
    /\ \A f \in EntryFields \ {"category"} : ~Has(req.body[f])
    /\ transactions[2] =
          [TransactionPage(2, "salary", Day2, 3, 2) EXCEPT !.category = "rent"]
    /\ transactions[1] = LedgerStore.transactions[1]
    /\ transactions[3] = LedgerStore.transactions[3]

\* Ids of the rows of a GET /api/transactions answer, in order.
RowIds(rows) == [i \in 1..Len(rows) |-> rows[i].id]

\* The entries of the store that are not archived and lie in the range
\* asked for (every entry when a bound is missing).
Listable(body) ==
    {p \in {transactions[i] : i \in 1..Len(transactions)} :
        /\ ~p.archived
        /\ (Has(body.startDate) /\ Has(body.endDate))
              => (Val(body.startDate) <= p.date /\ p.date <= Val(body.endDate))}

\* C22: a DELETE /api/transactions answered 200 (deleteTransaction(id)) sets
\* the archived mark of entry id and changes nothing else; an archived entry
\* stays archived in every later step; and every later listing, for any
\* date range, returns no archived entry, while each entry that is not
\* archived and lies in the range is still returned (up to the page size).
C22_ArchivedNeverListed ==
    [][/\ Len(transactions') >= Len(transactions)
       /\ \A i \in 1..Len(transactions) :
             transactions[i].archived => transactions'[i].archived
       /\ (Served("DELETE /api/transactions") /\ resp'.status = 200)
             => \E i \in 1..Len(transactions) :
                   /\ transactions[i].id = Val(req'.body.id)
                   /\ transactions' =
                         [transactions EXCEPT ![i].archived = TRUE]
                   /\ accounts' = accounts
       /\ (Served("GET /api/transactions") /\ resp'.status = 200)
             => LET ids == RowIds(resp'.data)
                    returned == {ids[i] : i \in 1..Len(ids)}
                    listable == {p.id : p \in Listable(req'.body)}
                IN  /\ UNCHANGED <<accounts, transactions>>
                    /\ returned \subseteq listable
                    /\ Cardinality(listable) <= PageSize
                          => returned = listable]_vars

\* The first entry was archived and a listing without bounds has then
\* returned the other two entries.
C22_Witness ==
    /\ req.handler = "GET /api/transactions"
    /\ resp.status = 200
    /\ ~Has(req.body.startDate)
    /\ transactions[1].archived
    /\ RowIds(resp.data) = <<TransactionId(3), TransactionId(2)>>

\* C24: a listing answered 200 is in descending date order and holds each
\* entry once; with both bounds given every row has
\* startDate <= date <= endDate, and every unarchived entry with a date in
\* that closed range is a row; with a bound missing every unarchived entry,
\* of any date, is a row (up to the page size in both cases).
C24_ListingFilterAndOrder ==
    (req.handler = "GET /api/transactions" /\ resp.status = 200)
        => LET rows == resp.data
               body == req.body
               listable == {p.id : p \in Listable(body)}
           IN  /\ \A i, j \in 1..Len(rows) :
                     i < j => /\ rows[i].date >= rows[j].date
                              /\ rows[i].id # rows[j].id
               /\ (Has(body.startDate) /\ Has(body.endDate))
                     => \A i \in 1..Len(rows) :
                           /\ Val(body.startDate) <= rows[i].date
                           /\ rows[i].date <= Val(body.endDate)
               /\ {rows[i].id : i \in 1..Len(rows)} \subseteq listable
               /\ Cardinality(listable) <= PageSize
                     => listable \subseteq {rows[i].id : i \in 1..Len(rows)}
               /\ \A i \in 1..Len(rows) :
                     \E k \in 1..Len(transactions) :
                        /\ transactions[k].id = rows[i].id
                        /\ transactions[k].date = rows[i].date

\* A listing from the earlier to the later of two entry dates has returned
\* the entries of both end dates, the later date first.
C24_Witness ==
    /\ req.handler = "GET /api/transactions"
    /\ resp.status = 200
    /\ req.body = [startDate |-> <<Day2>>, endDate |-> <<Day1>>]
    /\ Len(resp.data) = 3
    /\ resp.data[1].date = Day1
    /\ resp.data[2].date = Day1
    /\ resp.data[3].date = Day2

----------------------------------------------------------------------------
(* Properties of the aggregator over paged stores, checked under SpecPages *)

\* The unarchived entries with a date in the range getSummary(year, month)
\* asks for (month 0: the whole year).
InRange(year, month) ==
    LET range == SummaryRange(year, month)
    IN  {i \in 1..Len(transactions) :
            /\ ~transactions[i].archived
            /\ range.startDate <= transactions[i].date
            /\ transactions[i].date <= range.endDate}

\* Both callers have called the aggregator for the same year and month.
CalledTwice(g, h) ==
    /\ g # h
    /\ getPc[g] = "done"
    /\ getPc[h] = "done"
    /\ getArg[g] = getArg[h]

\* C23 as claimed: two calls of the aggregator for the same (year, month)
\* on an unchanged set of stored entries return the same Summary, whatever
\* the order in which the store returns the entries of one date.
C23_SameSummaryAnyOrder ==
    \A g, h \in Getters :
        CalledTwice(g, h)
            => /\ getMonthly[g] = getMonthly[h]
               /\ getYearly[g] = getYearly[h]

\* C23: two calls of the aggregator for the same (year, month) on an
\* unchanged set of stored entries return the same Summary (totals, balance,
\* keys and values of the category maps), whatever the order in which the
\* store returns the entries of one date, when at most one page (100) of
\* the entries lies in the range asked for.
C23_SameSummaryWithinPage ==
    \A g, h \in Getters :
        CalledTwice(g, h)
            => /\ Cardinality(InRange(getArg[g][1], getArg[g][2])) <= PageSize
                     => getMonthly[g] = getMonthly[h]
               /\ Cardinality(InRange(getArg[g][1], 0)) <= PageSize
                     => getYearly[g] = getYearly[h]

\* Two calls for December 2024, the second with the database holding its
\* pages in the other order, over exactly one page of entries of one date:
\* both return an income of 3 and an expense of 198.
C23_Witness ==
    /\ CalledTwice(1, 2)
    /\ getArg[1] = <<2024, 12>>
    /\ getSince[1] # getSince[2]
    /\ Cardinality(InRange(2024, 12)) = PageSize
    /\ Val(getMonthly[1]).totalIncome = 3
    /\ Val(getMonthly[1]).totalExpense = 2 * (PageSize - 1)
    /\ getMonthly[1] = getMonthly[2]

\* The unarchived entries dated in the year.
EntriesOfYear(year) ==
    {i \in 1..Len(transactions) :
        /\ ~transactions[i].archived
        /\ DateOf(year, 1, 1) <= transactions[i].date
        /\ transactions[i].date <= DateOf(year, 12, 31)}

\* Caller g has made its two calls, for a month and for the whole year.
CalledForMonth(g) == getPc[g] = "done" /\ getArg[g][2] \in 1..12

\* The monthly totals of caller g are no greater than its yearly totals.
MonthlyWithinYearly(g) ==
    /\ Val(getMonthly[g]).totalIncome <= Val(getYearly[g]).totalIncome
    /\ Val(getMonthly[g]).totalExpense <= Val(getYearly[g]).totalExpense

\* C29 as stated: over a fixed store, the totalIncome and the totalExpense
\* of getSummary(Y, M) are no greater than those of getSummary(Y), however
\* many entries are stored, more than 100 included.
C29_MonthlyWithinYearly ==
    \A g \in Getters : CalledForMonth(g) => MonthlyWithinYearly(g)

\* C29, amended: over a fixed store, the totalIncome and the totalExpense
\* of getSummary(Y, M) are no greater than those of getSummary(Y) when at
\* most one page (100) of the stored entries is dated in year Y.
C29_MonthlyWithinYearlyOnePage ==
    \A g \in Getters :
        CalledForMonth(g) /\ Cardinality(EntriesOfYear(getArg[g][1])) <= PageSize
            => MonthlyWithinYearly(g)

\* Exactly one page of entries of 2024, 99 dated in December and one in
\* January: the summary of January has the income of the year and none of
\* its expense.
C29_Witness ==
    /\ CalledForMonth(1)
    /\ getArg[1] = <<2024, 1>>
    /\ Cardinality(EntriesOfYear(2024)) = PageSize
    /\ Val(getMonthly[1]).totalIncome = 1
    /\ Val(getYearly[1]).totalIncome = 1
    /\ Val(getMonthly[1]).totalExpense = 0
    /\ Val(getYearly[1]).totalExpense = 2 * (PageSize - 1)

----------------------------------------------------------------------------
(* Properties of the queried date range, checked under SpecRange *)

\* The number of days of month m of year y in the Gregorian calendar.
GregorianDays(y, m) ==
    IF m = 2
    THEN (IF (y % 4 = 0 /\ y % 100 # 0) \/ y % 400 = 0 THEN 29 ELSE 28)
    ELSE IF m \in {4, 6, 9, 11} THEN 30 ELSE 31

----------------------------------------------------------------------------
(* Properties of the authentication gate, checked under SpecAuth *)

DigestAfterScheme(hdr, digest) ==
    /\ hdr # NoHeader
    /\ \/ /\ \A i \in 1..Len(hdr) : hdr[i] # "Bearer "
          /\ Join(hdr) = digest
       \/ \E i \in 1..Len(hdr) :
             /\ hdr[i] = "Bearer "
             /\ \A j \in 1..(i - 1) : hdr[j] # "Bearer "
             /\ Join(SubSeq(hdr, 1, i - 1) \o SubSeq(hdr, i + 1, Len(hdr)))
                   = digest

StartsWith(key, prefix) ==
    Len(key) >= Len(prefix) /\ SubSeq(key, 1, Len(prefix)) = prefix

\* The keys that a cache request naming this target leaves in the cache.
KeptKeys(target) ==
    CASE target = <<"transactions">> ->
            {k \in DOMAIN cache : ~StartsWith(k, KeyTransactions)}
      [] target = <<"accounts">> -> (DOMAIN cache) \ {KeyAccounts}
      [] OTHER -> {}

\* An authorised cache request has left exactly these keys, each with the
\* value it had, and its answer lists them.
InvalidateLeaves(keys) ==
    /\ resp'.status = 200
    /\ DOMAIN cache' = keys
    /\ \A k \in keys : cache'[k] = cache[k]
    /\ resp'.data.stats = keys

\* C27 as stated: an authorised POST /api/cache/invalidate with target
\* transactions removes every key that begins with "transactions" and no
\* other key, with target accounts removes only the key accounts, and with
\* target all, no target, an unparsable body or any other target empties the
\* cache; the stats of the answer are the keys that remain.
C27_InvalidateRemovesTargetKeys ==
    [][Served("POST /api/cache/invalidate") /\ resp'.status # 401
         => InvalidateLeaves(KeptKeys(req'.body.target))]_vars

\* C27, amended: the statement above holds of every authorised request
\* whose body is not the JSON value null; a null body is answered 500 and
\* leaves the cache as it was.
C27_InvalidateExceptNullBody ==
    [][Served("POST /api/cache/invalidate") /\ resp'.status # 401
         => IF req'.body.json = "null"
            THEN resp'.status = 500 /\ cache' = cache
            ELSE InvalidateLeaves(KeptKeys(req'.body.target))]_vars

\* Target transactions has removed the two keys that begin with
\* "transactions" from a cache that held all six keys.
C27_Witness ==
    /\ req.handler = "POST /api/cache/invalidate"
    /\ req.body = InvalidateBody("object", <<"transactions">>)
    /\ resp.status = 200
    /\ resp.data.stats = InvalidateKeys
          \ {KeyTransactions, KeyTransactions \o <<":", "2", "0", "2", "4">>}
    /\ DOMAIN cache = resp.data.stats

RECURSIVE MapSum(_)
\* The sum of the values of a breakdown map.
MapSum(m) ==
    IF DOMAIN m = {} THEN 0
    ELSE LET k == CHOOSE x \in DOMAIN m : TRUE
         IN  m[k] + MapSum([x \in (DOMAIN m) \ {k} |-> m[x]])

RECURSIVE UnnamedIncome(_)
\* The amounts above zero of the counted entries that have no category.
UnnamedIncome(txs) ==
    IF txs = <<>> THEN 0
    ELSE (IF SumCounted(Head(txs)) /\ Head(txs).category = ""
             /\ Head(txs).amount > 0
          THEN Head(txs).amount ELSE 0) + UnnamedIncome(Tail(txs))

RECURSIVE UnnamedExpense(_)
\* The absolute amounts, zero or below, of the counted entries that have no
\* category.
UnnamedExpense(txs) ==
    IF txs = <<>> THEN 0
    ELSE (IF SumCounted(Head(txs)) /\ Head(txs).category = ""
             /\ Head(txs).amount <= 0
          THEN Abs(Head(txs).amount) ELSE 0) + UnnamedExpense(Tail(txs))

\* C28 as stated: in every returned Summary the values of byCategoryIncome
\* add up to totalIncome and the values of byCategoryExpense add up to
\* totalExpense, whatever the fetched list, entries without a category
\* included.
C28_BreakdownSumsEqualTotals ==
    sumPc = "done"
        => /\ MapSum(sumResult.byCategoryIncome) = sumResult.totalIncome
           /\ MapSum(sumResult.byCategoryExpense) = sumResult.totalExpense

\* C28, amended: the values of byCategoryIncome add up to totalIncome less
\* the income of the counted entries without a category, and the values of
\* byCategoryExpense to totalExpense less the expense of those entries, so
\* each sum equals its total when every counted entry has a category.
C28_BreakdownSumsEqualNamedTotals ==
    sumPc = "done"
        => /\ MapSum(sumResult.byCategoryIncome)
                = sumResult.totalIncome - UnnamedIncome(sumTxs)
           /\ MapSum(sumResult.byCategoryExpense)
                = sumResult.totalExpense - UnnamedExpense(sumTxs)

\* A Summary of entries of two categories and one without a category: the
\* income breakdown has two keys and adds up to less than totalIncome.
C28_Witness ==
    /\ sumPc = "done"
    /\ DOMAIN sumResult.byCategoryIncome = {"food", "salary"}
    /\ UnnamedIncome(sumTxs) > 0
    /\ MapSum(sumResult.byCategoryIncome) < sumResult.totalIncome

----------------------------------------------------------------------------
(* The carrier flag under the other operations, checked under Spec *)

\* The accounts there were keep their place, their id and their carrier
\* flag, and an account created now has no flag.
FlagsKept ==
    /\ Len(accounts') >= Len(accounts)
    /\ \A i \in 1..Len(accounts) :
          /\ accounts'[i].id = accounts[i].id
          /\ accounts'[i].isCarrierAccount = accounts[i].isCarrierAccount
    /\ \A i \in (Len(accounts) + 1)..Len(accounts') :
          ~accounts'[i].isCarrierAccount

\* C30: only setCarrierAccount (PUT /api/accounts/carrier) changes a carrier
\* flag: every other request, among them POST and PUT /api/accounts with a
\* body that carries isCarrierAccount, POST, PUT and DELETE
\* /api/transactions and POST /api/transfer, leaves the flag of every
\* account as it was, and an account POST /api/accounts creates has none.
C30_FlagChangedOnlyBySetCarrier ==
    [][served' = served + 1 /\ req'.handler # "PUT /api/accounts/carrier"
         => FlagsKept]_vars

\* A PUT /api/accounts whose body carries isCarrierAccount: true for Cash
\* has been answered 200: Cash has no flag and Bank has kept its own.
C30_Witness ==
    /\ req.handler = "PUT /api/accounts"
    /\ req.body = AccountUpdateFlagged(<<AccountId(1)>>, <<>>, <<TRUE>>)
    /\ resp.status = 200
    /\ resp.calls = <<"update account">>
    /\ ~accounts[1].isCarrierAccount
    /\ accounts[2].isCarrierAccount

====
